---- MODULE Spec2Model ----
(***************************************************************************)
(* A model of src/script.js, the client-side interaction layer of the      *)
(* Prism of Torah site.  Each component of the script (Navigation, FAQ,    *)
(* AudioPlayer, utils, Modal, Forms, ScrollEffects and the PrismOfTorah    *)
(* orchestrator) is a group of variables and one action per event handler  *)
(* or timer callback.  Each component has a specification of its own in    *)
(* which the other components' variables stay at their page-load values;   *)
(* SpecPage joins the mobile menu and the modal, which share the document  *)
(* listeners and document.body.style.overflow.                             *)
(*                                                                         *)
(* DOM contract: the page holds the elements a handler looks up (the       *)
(* script's null guards on optional elements are therefore always taken    *)
(* on the "element present" branch).  Attribute values are the strings     *)
(* the DOM stores: setAttribute(name, bool) stores "true" / "false", and   *)
(* an absent attribute reads as "none" (getAttribute returns null).        *)
(*                                                                         *)
(* Time: a timer callback runs at its deadline, before any event carrying  *)
(* the same timestamp.                                                     *)
(***************************************************************************)
EXTENDS Integers, Sequences, FiniteSets, TLC

VARIABLES
    lastEvent,      \* the handler or callback that ran last: [op, arg]
    announcerText,  \* textContent of #announcements
    \* ---- FAQ
    faqExpanded,    \* aria-expanded of each item's question
    faqHidden,      \* aria-hidden of each item's answer
    faqPrev,        \* history: faqExpanded as the last click handler found it
    \* ---- AudioPlayer
    isPlaying,      \* closure variable isPlaying of each player
    progress,       \* closure variable progress of each player
    playIcon,       \* innerHTML of each play button: "play" or "pause" svg
    playLabel,      \* aria-label of each play button
    volMuted,       \* 'muted' class of each volume button
    volLabel,       \* aria-label of each volume button
    wasPlaying,     \* history: isPlaying as the last click handler found it
    \* ---- utils.debounce / utils.throttle, one wrapper of each
    now,            \* the clock, in ticks
    dTimeout,       \* debounce: deadline of the pending timer `timeout`, -1 if none
    dArgs,          \* debounce: args closed over by the pending `later`
    dCalls,         \* history: the calls of the debounced wrapper, [at, args]
    dFired,         \* history: the invocations of func, [at, args]
    tInThrottle,    \* throttle: closure variable inThrottle
    tTimer,         \* throttle: deadline of the pending reset timer, -1 if none
    tCalls,         \* history: the calls of the throttled wrapper, [at, args]
    tFired,         \* history: the invocations of func, [at, args]
    \* ---- ScrollEffects.setupHeaderScroll
    pageYOffset,    \* window.pageYOffset
    prevYOffset,    \* history: window.pageYOffset before the last scroll event
    lastScroll,     \* closure variable lastScroll
    headerScrolled, \* class header--scrolled
    headerHidden,   \* class header--hidden
    hInThrottle,    \* inThrottle of the throttled handleScroll
    hTimer,         \* ms left on its reset timer, -1 if none
    \* ---- Forms: one contact form
    fieldRequired,  \* DOM: whether each field has the required attribute
    fieldValue,     \* value of each field
    fieldInvalid,   \* aria-invalid of each field
    fieldErrorClass,\* class field-error of each field
    fieldErrorText, \* textContent of #<name>-error of each field
    fieldPending,   \* whether the field's debounced input validation is pending
    cBtnDisabled,   \* disabled of the contact form's submit button
    cBtnText,       \* its textContent
    cOriginalText,  \* originalText of the running handleContactSubmission
    cStage,         \* where that call is: "idle", "sending" or "sent"
    contactCalls,   \* history: number of submitContactForm invocations
    \* ---- Modal: the email-capture modal
    modalHidden,    \* aria-hidden of the modal
    modalDisplay,   \* style.display of the modal
    bodyOverflow,   \* document.body.style.overflow
    focusOn,        \* the focused element: "page", "modalFirst" or "navToggle"
    mFocusTimers,   \* ms left on each pending focus timer of openModal
    mExitTimers,    \* ms left on each pending display timer of closeModal
    emailValue,     \* value of the form's email input
    mBtnDisabled,   \* disabled of the form's submit button
    mBtnText,       \* its textContent
    mBtnSuccess,    \* whether its style.background is the success colour
    mErrorText,     \* textContent of .form__error
    mOriginalText,  \* originalText of the running handleEmailSubmission
    mSettleTimer,   \* ms left until submitEmail settles, -1 if none pending
    mSuccessTimer,  \* ms left on the timer set after success, -1 if none
    submitEmailCalls, \* history: the arguments of the submitEmail invocations
    \* ---- Navigation: the mobile menu
    navToggleExpanded, \* aria-expanded of .nav__toggle
    navMenuExpanded,   \* aria-expanded of .nav__menu
    navActive,         \* class nav__toggle--active of the toggle
    \* ---- Navigation: one dropdown item
    ddHover,           \* whether the pointer is over the item
    ddExpanded,        \* aria-expanded of the item's link
    ddDisplay,         \* style.display of the item's dropdown
    ddTimers,          \* ms left on each pending timer of the mouseleave listener
    ddSinceLeave,      \* history: ms since the last mouseleave, counted up to the
                       \* grace delay; -1 before the first
    \* ---- ScrollEffects: the scroll-to-top button
    topVisible,        \* whether .scroll-to-top has class visible
    topInThrottle,     \* inThrottle of the throttle around toggleVisibility
    topTimer,          \* ms left on that throttle's reset timer, -1 when none
    \* ---- Search: the search form
    srValue,           \* value of .search-form__input
    srTimer,           \* ms left on the debounce's timeout, -1 when none
    srSinceInput,      \* history: ms since the last input event, counted up to
                       \* the debounce's wait; -1 before the first
    srCall,            \* history: the performSearch call of the last step
    \* ---- Forms: one newsletter form
    nlRequired,        \* DOM: whether its email field has the required attribute
    nlValue,           \* value of the email field
    nlInvalid,         \* aria-invalid and class field-error of the email field
    nlErrorText,       \* textContent of the field's error element
    nlBtnDisabled,     \* disabled of the submit button
    nlBtnText,         \* its textContent
    nlBtnSuccess,      \* whether its style.background is the success colour
    nlOriginalText,    \* originalText of the handleNewsletterSubmission call that
                       \* awaits submitEmail or whose success timer runs
    nlSettleTimer,     \* ms left until submitEmail settles, -1 if none pending
    nlSuccessTimer,    \* ms left on the timer set after success, -1 if none
    nlRetryTimers,     \* the timers set after failures: [left, text], text being
                       \* the originalText their callback writes
    \* ---- utils.formatTime / AudioPlayer.parseDuration
    fmtSeconds,        \* the argument of formatTime
    fmtText,           \* the string formatTime returned, <<>> before the call
    fmtParsed,         \* what parseDuration returned for it, <<>> before the call
    \* ---- utils.isValidEmail
    candidate,         \* the argument of isValidEmail
    verdict,           \* what it returned: "true" or "false", "none" before the call
    \* ---- PrismOfTorah, the orchestrator
    readyState,     \* document.readyState
    scriptRan,      \* whether PrismOfTorah.init() has run
    initPhase,      \* initializeComponents: "idle", "waiting" for
                    \* DOMContentLoaded, "running", "done" or "failed" (caught)
    initPc,         \* index of the component whose init() is called next
    initCalled,     \* history: the components whose init() was called, in order
    initialized,    \* the components whose init() returned
    initThrew,      \* history: index of the first component whose init() threw, 0 if none
    initRuns,       \* history: number of times initializeComponents was entered
    errorLogged,    \* console.error('Error initializing website:', …) ran
    successLogged   \* console.log('… initialized successfully') ran

faqVars == <<faqExpanded, faqHidden, faqPrev>>
playerVars == <<isPlaying, progress, playIcon, playLabel, volMuted, volLabel, wasPlaying>>
timingVars == <<now, dTimeout, dArgs, dCalls, dFired, tInThrottle, tTimer, tCalls, tFired>>
headerVars == <<pageYOffset, prevYOffset, lastScroll, headerScrolled, headerHidden,
                hInThrottle, hTimer>>
contactVars == <<fieldRequired, fieldValue, fieldInvalid, fieldErrorClass, fieldErrorText,
                 fieldPending, cBtnDisabled, cBtnText, cOriginalText, cStage, contactCalls>>
modalOwnVars == <<modalHidden, modalDisplay, bodyOverflow, focusOn, mFocusTimers,
                  mExitTimers, emailValue, mBtnDisabled, mBtnText, mBtnSuccess, mErrorText,
                  mOriginalText, mSettleTimer, mSuccessTimer>>
modalVars == <<modalOwnVars, submitEmailCalls>>
navVars == <<navToggleExpanded, navMenuExpanded, navActive>>
dropVars == <<ddHover, ddExpanded, ddDisplay, ddTimers, ddSinceLeave>>
topVars == <<topVisible, topInThrottle, topTimer>>
searchVars == <<srValue, srTimer, srSinceInput, srCall>>
newsVars == <<nlRequired, nlValue, nlInvalid, nlErrorText, nlBtnDisabled, nlBtnText,
              nlBtnSuccess, nlOriginalText, nlSettleTimer, nlSuccessTimer, nlRetryTimers>>
formatVars == <<fmtSeconds, fmtText, fmtParsed>>
emailCheckVars == <<candidate, verdict>>
orchVars == <<readyState, scriptRan, initPhase, initPc, initCalled, initialized, initThrew,
              initRuns, errorLogged, successLogged>>

\* String(b), as setAttribute stores a boolean
BoolString(b) == IF b THEN "true" ELSE "false"

Event(op, arg) == [op |-> op, arg |-> arg]

\* utils.announce(message): the live region takes the message
Announce(message) == announcerText' = message

\* the 1000ms callback of utils.announce clears the live region
AnnounceClear ==
    /\ announcerText # ""
    /\ announcerText' = ""
    /\ lastEvent' = Event("announceClear", 0)

(***************************************************************************)
(* FAQ accordion                                                           *)
(***************************************************************************)
NumFaq == 3
FaqItems == 1..NumFaq
AttrValues == {"true", "false", "none"}

\* the items whose question carries aria-expanded = "true"
ExpandedItems(f) == {i \in FaqItems : f[i] = "true"}

\* a mutation of CloseOthers: the other items are left as they are
CloseOthers_Kept(item, attr, value) == attr

\* a mutation of CloseOthers: both attributes of the other items are set to
\* 'false'
CloseOthers_AllFalse(item, attr, value) ==
    [j \in FaqItems |-> IF j # item THEN "false" ELSE attr[j]]

\* faqItems.forEach(otherItem => if (otherItem !== item) setAttribute(value))
CloseOthers(item, attr, value) ==
    [j \in FaqItems |-> IF j # item THEN value ELSE attr[j]]

\* a mutation of ToggleItem: the attribute is not negated
ToggleItem_Same(item, attr, b) == [attr EXCEPT ![item] = "true"]

\* question.setAttribute('aria-expanded', !isExpanded) and
\* answer.setAttribute('aria-hidden', isExpanded)
ToggleItem(item, attr, b) == [attr EXCEPT ![item] = BoolString(b)]

\* the click listener of a question
FaqClickHandler(item) ==
    LET isExpanded == faqExpanded[item] = "true" IN
    /\ faqPrev' = faqExpanded
    /\ faqExpanded' = ToggleItem(item, CloseOthers(item, faqExpanded, "false"), ~isExpanded)
    /\ faqHidden' = ToggleItem(item, CloseOthers(item, faqHidden, "true"), isExpanded)
    /\ Announce(IF isExpanded THEN "Section collapsed" ELSE "Section expanded")

FaqClick(item) ==
    /\ FaqClickHandler(item)
    /\ lastEvent' = Event("faqClick", item)

FaqKeys == {"Enter", " ", "Tab"}

\* the keydown listener of a question: Enter and Space click it
FaqKeydown(item, key) ==
    /\ IF key = "Enter" \/ key = " "
          THEN FaqClickHandler(item)
          ELSE UNCHANGED <<faqVars, announcerText>>
    /\ lastEvent' = Event("faqKeydown", item)

\* the page as loaded: any attributes, at most one question expanded
FaqInit ==
    /\ faqExpanded \in [FaqItems -> AttrValues]
    /\ Cardinality(ExpandedItems(faqExpanded)) <= 1
    /\ faqHidden \in [FaqItems -> AttrValues]
    /\ faqPrev = faqExpanded

FaqIdle ==
    /\ faqExpanded = [i \in FaqItems |-> "false"]
    /\ faqHidden = [i \in FaqItems |-> "true"]
    /\ faqPrev = faqExpanded

(***************************************************************************)
(* AudioPlayer                                                             *)
(***************************************************************************)
NumPlayers == 3
Players == 1..NumPlayers
MaxDuration == 2

\* parseDuration(totalTime.textContent) of each player, in seconds
duration == [p \in Players |-> IF p = 1 THEN MaxDuration ELSE 1]

\* a mutation of PlayAudio: the other buttons are not reset
PlayAudio_NoReset(player, attr, value) == attr

\* playAudio(playerElement): every play button outside the player is set
\* to the play icon / 'Play episode'
PlayAudio(player, attr, value) ==
    [q \in Players |-> IF q # player THEN value ELSE attr[q]]

\* playBtn.innerHTML = ... ; playBtn.setAttribute('aria-label', ...)
OwnButton(player, attr, value) == [attr EXCEPT ![player] = value]

\* the click listener of a play button
PlayClick(player) ==
    LET nowPlaying == ~isPlaying[player] IN
    /\ wasPlaying' = isPlaying
    /\ isPlaying' = [isPlaying EXCEPT ![player] = nowPlaying]
    /\ IF nowPlaying
          THEN /\ playIcon' = OwnButton(player, PlayAudio(player, playIcon, "play"), "pause")
               /\ playLabel' = OwnButton(player, PlayAudio(player, playLabel, "Play episode"),
                                         "Pause episode")
          ELSE /\ playIcon' = OwnButton(player, playIcon, "play")
               /\ playLabel' = OwnButton(player, playLabel, "Play episode")
    /\ Announce(IF nowPlaying THEN "Playing episode" ELSE "Episode paused")
    /\ UNCHANGED <<progress, volMuted, volLabel>>
    /\ lastEvent' = Event("playClick", player)

\* a mutation of UpdateProgress: the tick does not look at the duration
UpdateProgress_NoCap(player) ==
    /\ progress' = IF isPlaying[player]
                      THEN [progress EXCEPT ![player] = @ + 1]
                      ELSE progress
    /\ UNCHANGED <<isPlaying, playIcon, playLabel, volMuted, volLabel, wasPlaying,
                   announcerText>>
    /\ lastEvent' = Event("updateProgress", player)

\* updateProgress, the setInterval(…, 1000) callback of a player
UpdateProgress(player) ==
    /\ progress' = IF isPlaying[player] /\ progress[player] < duration[player]
                      THEN [progress EXCEPT ![player] = @ + 1]
                      ELSE progress
    /\ UNCHANGED <<isPlaying, playIcon, playLabel, volMuted, volLabel, wasPlaying,
                   announcerText>>
    /\ lastEvent' = Event("updateProgress", player)

\* the click listener of a volume button
VolumeClick(player) ==
    LET isMuted == ~volMuted[player] IN
    /\ volMuted' = [volMuted EXCEPT ![player] = isMuted]
    /\ volLabel' = [volLabel EXCEPT ![player] = IF isMuted THEN "Unmute" ELSE "Mute"]
    /\ Announce(IF isMuted THEN "Audio muted" ELSE "Audio unmuted")
    /\ UNCHANGED <<isPlaying, progress, playIcon, playLabel, wasPlaying>>
    /\ lastEvent' = Event("volumeClick", player)

PlayerInit ==
    /\ isPlaying = [p \in Players |-> FALSE]
    /\ progress = [p \in Players |-> 0]
    /\ playIcon = [p \in Players |-> "play"]
    /\ playLabel = [p \in Players |-> "Play episode"]
    /\ volMuted = [p \in Players |-> FALSE]
    /\ volLabel = [p \in Players |-> "Mute"]
    /\ wasPlaying = isPlaying

(***************************************************************************)
(* utils.debounce and utils.throttle: one wrapper of each around a func    *)
(* that records its invocations                                            *)
(***************************************************************************)
MaxTime == 6
MaxCalls == 3
Wait == 2
Limit == 2
ArgValues == {"x", "y"}

Call(at, args) == [at |-> at, args |-> args]

\* no timer of the two wrappers is at its deadline
NoTimerDue == dTimeout # now /\ tTimer # now

\* a mutation of DebounceSchedule: a pending timer is kept, not rescheduled
DebounceSchedule_KeepPending(args) ==
    IF dTimeout # -1
       THEN UNCHANGED <<dTimeout, dArgs>>
       ELSE dTimeout' = now + Wait /\ dArgs' = args

\* clearTimeout(timeout); timeout = setTimeout(later, wait), later closing
\* over this call's args
DebounceSchedule(args) ==
    /\ dTimeout' = now + Wait
    /\ dArgs' = args

\* executedFunction(...args), the debounced wrapper
DebounceCall(args) ==
    /\ Len(dCalls) < MaxCalls
    /\ NoTimerDue
    /\ DebounceSchedule(args)
    /\ dCalls' = Append(dCalls, Call(now, args))
    /\ UNCHANGED <<now, dFired, tInThrottle, tTimer, tCalls, tFired>>
    /\ lastEvent' = Event("debounceCall", 0)

\* later, the timer callback: func(...args)
DebounceLater ==
    /\ dTimeout = now
    /\ dFired' = Append(dFired, Call(now, dArgs))
    /\ dTimeout' = -1
    /\ UNCHANGED <<now, dArgs, dCalls, tInThrottle, tTimer, tCalls, tFired>>
    /\ lastEvent' = Event("debounceLater", 0)

\* a mutation of ThrottleFire: func also runs while inThrottle is set
ThrottleFire_Always(args) ==
    /\ tFired' = Append(tFired, Call(now, args))
    /\ tInThrottle' = TRUE
    /\ tTimer' = now + Limit

\* if (!inThrottle) { func.apply(this, args); inThrottle = true; setTimeout(…, limit) }
ThrottleFire(args) ==
    IF ~tInThrottle
       THEN /\ tFired' = Append(tFired, Call(now, args))
            /\ tInThrottle' = TRUE
            /\ tTimer' = now + Limit
       ELSE UNCHANGED <<tFired, tInThrottle, tTimer>>

\* the throttled wrapper
ThrottleCall(args) ==
    /\ Len(tCalls) < MaxCalls
    /\ NoTimerDue
    /\ ThrottleFire(args)
    /\ tCalls' = Append(tCalls, Call(now, args))
    /\ UNCHANGED <<now, dTimeout, dArgs, dCalls, dFired>>
    /\ lastEvent' = Event("throttleCall", 0)

\* () => inThrottle = false, the timer callback
ThrottleReset ==
    /\ tTimer = now
    /\ tInThrottle' = FALSE
    /\ tTimer' = -1
    /\ UNCHANGED <<now, dTimeout, dArgs, dCalls, dFired, tCalls, tFired>>
    /\ lastEvent' = Event("throttleReset", 0)

\* the clock advances once the timers due now have run
Tick ==
    /\ now < MaxTime
    /\ NoTimerDue
    /\ now' = now + 1
    /\ UNCHANGED <<dTimeout, dArgs, dCalls, dFired, tInThrottle, tTimer, tCalls, tFired>>
    /\ lastEvent' = Event("tick", 0)

TimingInit ==
    /\ now = 0
    /\ dTimeout = -1
    /\ dArgs = "x"
    /\ dCalls = <<>>
    /\ dFired = <<>>
    /\ tInThrottle = FALSE
    /\ tTimer = -1
    /\ tCalls = <<>>
    /\ tFired = <<>>

(***************************************************************************)
(* Strings are sequences of one-character strings                          *)
(***************************************************************************)
\* String.prototype.trim
RECURSIVE TrimStart(_)
TrimStart(s) == IF s # <<>> /\ Head(s) = " " THEN TrimStart(Tail(s)) ELSE s
RECURSIVE TrimEnd(_)
TrimEnd(s) ==
    IF s # <<>> /\ s[Len(s)] = " " THEN TrimEnd(SubSeq(s, 1, Len(s) - 1)) ELSE s
Trim(s) == TrimEnd(TrimStart(s))

\* [^\s@]+ matches s[from..to]
NoSpaceNoAt(s, from, to) ==
    /\ from <= to
    /\ \A k \in from..to : s[k] # " " /\ s[k] # "@"

\* a mutation of IsValidEmail: the regular expression without the dot
IsValidEmail_NoDot(s) ==
    \E i \in 1..Len(s) :
       /\ s[i] = "@"
       /\ NoSpaceNoAt(s, 1, i - 1)
       /\ NoSpaceNoAt(s, i + 1, Len(s))

\* utils.isValidEmail: /^[^\s@]+@[^\s@]+\.[^\s@]+$/.test(email)
IsValidEmail(s) ==
    \E i, j \in 1..Len(s) :
       /\ s[i] = "@"
       /\ s[j] = "."
       /\ NoSpaceNoAt(s, 1, i - 1)
       /\ NoSpaceNoAt(s, i + 1, j - 1)
       /\ NoSpaceNoAt(s, j + 1, Len(s))

EmptyValue == <<>>
BlankValue == <<" ">>
NameValue == <<"a">>
NoDotEmail == <<"a", "@", "b">>
GoodEmail == <<"a", "@", "b", ".", "c">>
SpacedEmail == <<"a", " ", "b", "@", "c", ".", "d">>

\* isValidEmail called on any string over a letter, '@', '.' and a space
MaxEmailLen == 6
EmailAlphabet == {"a", "@", ".", " "}
Candidates == UNION {[1..n -> EmailAlphabet] : n \in 0..MaxEmailLen}

CheckEmail ==
    /\ verdict = "none"
    /\ verdict' = BoolString(IsValidEmail(candidate))
    /\ UNCHANGED candidate
    /\ lastEvent' = Event("isValidEmail", 0)

EmailCheckInit ==
    /\ candidate \in Candidates
    /\ verdict = "none"

EmailCheckIdle ==
    /\ candidate = EmptyValue
    /\ verdict = "none"

(***************************************************************************)
(* utils.formatTime and AudioPlayer.parseDuration, on decimal strings.     *)
(* A number that parseInt cannot read (NaN) is the empty sequence, a       *)
(* number n it reads is <<n>>.                                             *)
(***************************************************************************)
MaxSeconds == 3700
DigitChars == <<"0", "1", "2", "3", "4", "5", "6", "7", "8", "9">>

\* Number.prototype.toString of a non-negative integer below 10^21
RECURSIVE NumberToString(_)
NumberToString(n) ==
    IF n < 10 THEN <<DigitChars[n + 1]>>
    ELSE NumberToString(n \div 10) \o <<DigitChars[(n % 10) + 1]>>

\* String.prototype.padStart(targetLength, padString) for a one-character pad
RECURSIVE padStart(_, _, _)
padStart(str, targetLength, padString) ==
    IF Len(str) >= targetLength THEN str
    ELSE padStart(<<padString>> \o str, targetLength, padString)

\* a mutation of formatTime: the seconds are not padded
formatTime_NoPad(seconds) ==
    NumberToString(seconds \div 60) \o <<":">> \o NumberToString(seconds % 60)

\* utils.formatTime(seconds), for a non-negative integer
formatTime(seconds) ==
    LET mins == seconds \div 60
        secs == seconds % 60
    IN  NumberToString(mins) \o <<":">> \o padStart(NumberToString(secs), 2, "0")

\* String.prototype.split(separator) for a one-character separator
RECURSIVE split(_, _)
split(str, separator) ==
    IF \A k \in 1..Len(str) : str[k] # separator THEN <<str>>
    ELSE LET at == CHOOSE k \in 1..Len(str) :
                      /\ str[k] = separator
                      /\ \A m \in 1..(k - 1) : str[m] # separator
         IN  <<SubSeq(str, 1, at - 1)>> \o split(SubSeq(str, at + 1, Len(str)), separator)

DigitValue(c) == CHOOSE d \in 0..9 : DigitChars[d + 1] = c
IsDigit(c) == \E d \in 0..9 : DigitChars[d + 1] = c

\* the value of a string of digits
RECURSIVE DigitsValue(_)
DigitsValue(str) ==
    IF str = <<>> THEN 0
    ELSE 10 * DigitsValue(SubSeq(str, 1, Len(str) - 1)) + DigitValue(str[Len(str)])

\* parseInt(string) on a string without sign or leading white space: the
\* value of its longest prefix of digits, NaN if that prefix is empty
parseInt(str) ==
    LET n == CHOOSE k \in 0..Len(str) :
                 /\ \A m \in 1..k : IsDigit(str[m])
                 /\ k < Len(str) => ~IsDigit(str[k + 1])
    IN  IF n = 0 THEN <<>> ELSE <<DigitsValue(SubSeq(str, 1, n))>>

\* AudioPlayer.parseDuration(timeString); parts[1] of a string without ':'
\* is undefined, and parseInt(undefined) is NaN
parseDuration(timeString) ==
    LET parts == split(timeString, ":")
        minutes == parseInt(parts[1])
        seconds == IF Len(parts) >= 2 THEN parseInt(parts[2]) ELSE <<>>
    IN  IF minutes = <<>> \/ seconds = <<>> THEN <<>>
        ELSE <<minutes[1] * 60 + seconds[1]>>

\* updateProgress writes formatTime(progress) into the current-time element
FormatTimeStep ==
    /\ lastEvent.op = "load"
    /\ fmtText' = formatTime(fmtSeconds)
    /\ UNCHANGED <<fmtSeconds, fmtParsed>>
    /\ lastEvent' = Event("formatTime", 0)

\* the text produced is read back by parseDuration
ParseDurationStep ==
    /\ lastEvent.op = "formatTime"
    /\ fmtParsed' = parseDuration(fmtText)
    /\ UNCHANGED <<fmtSeconds, fmtText>>
    /\ lastEvent' = Event("parseDuration", 0)

\* any number of whole seconds up to the bound
FormatInit ==
    /\ fmtSeconds \in 0..MaxSeconds
    /\ fmtText = <<>>
    /\ fmtParsed = <<>>

FormatIdle ==
    /\ fmtSeconds = 0
    /\ fmtText = <<>>
    /\ fmtParsed = <<>>

(***************************************************************************)
(* Forms: validateField and the contact form                               *)
(***************************************************************************)
NumContactFields == 2
MaxSubmits == 1
ContactFields == 1..NumContactFields
FieldValues == {EmptyValue, BlankValue, NameValue, GoodEmail}

\* DOM: the first field of the form is the email input, the others are text
fieldType == [f \in ContactFields |-> IF f = 1 THEN "email" ELSE "text"]

\* a mutation of FieldCheck: the required test does not trim the value
FieldCheck_Untrimmed(f) ==
    LET missing == fieldRequired[f] /\ fieldValue[f] = <<>>
        badEmail == /\ fieldType[f] = "email"
                    /\ fieldValue[f] # <<>>
                    /\ ~IsValidEmail(fieldValue[f])
    IN  [isValid |-> ~missing /\ ~badEmail,
         message |-> IF badEmail THEN "Please enter a valid email address"
                     ELSE IF missing THEN "This field is required"
                     ELSE ""]

\* validateField(field): its isValid and message
FieldCheck(f) ==
    LET missing == fieldRequired[f] /\ Trim(fieldValue[f]) = <<>>
        badEmail == /\ fieldType[f] = "email"
                    /\ fieldValue[f] # <<>>
                    /\ ~IsValidEmail(fieldValue[f])
    IN  [isValid |-> ~missing /\ ~badEmail,
         message |-> IF badEmail THEN "Please enter a valid email address"
                     ELSE IF missing THEN "This field is required"
                     ELSE ""]

\* validateField's "Update UI", for the fields of set fs
ValidateFields(fs) ==
    /\ fieldErrorText' =
          [f \in ContactFields |-> IF f \in fs THEN FieldCheck(f).message
                                   ELSE fieldErrorText[f]]
    /\ fieldInvalid' =
          [f \in ContactFields |-> IF f \in fs THEN BoolString(~FieldCheck(f).isValid)
                                   ELSE fieldInvalid[f]]
    /\ fieldErrorClass' =
          [f \in ContactFields |-> IF f \in fs THEN ~FieldCheck(f).isValid
                                   ELSE fieldErrorClass[f]]

\* field.value as the DOM returns it for typed text v: an input of type
\* email strips leading and trailing whitespace from its value (HTML's value
\* sanitization), the other controls return the text as typed
FieldValueOf(f, v) == IF fieldType[f] = "email" THEN Trim(v) ELSE v

\* the user edits a field; its input listener (re)schedules the debounced
\* validation
ContactInput(f, v) ==
    /\ FieldValueOf(f, v) # fieldValue[f]
    /\ fieldValue' = [fieldValue EXCEPT ![f] = FieldValueOf(f, v)]
    /\ fieldPending' = [fieldPending EXCEPT ![f] = TRUE]
    /\ UNCHANGED <<fieldRequired, fieldInvalid, fieldErrorClass, fieldErrorText,
                   cBtnDisabled, cBtnText, cOriginalText, cStage, contactCalls,
                   announcerText>>
    /\ lastEvent' = Event("contactInput", 0)

\* the blur listener of a field
ContactBlur(f) ==
    /\ ValidateFields({f})
    /\ UNCHANGED <<fieldRequired, fieldValue, fieldPending, cBtnDisabled, cBtnText,
                   cOriginalText, cStage, contactCalls, announcerText>>
    /\ lastEvent' = Event("contactBlur", f)

\* the debounced input listener of a field, 300ms after the last input
ContactDebouncedValidate(f) ==
    /\ fieldPending[f]
    /\ fieldPending' = [fieldPending EXCEPT ![f] = FALSE]
    /\ ValidateFields({f})
    /\ UNCHANGED <<fieldRequired, fieldValue, cBtnDisabled, cBtnText, cOriginalText,
                   cStage, contactCalls, announcerText>>
    /\ lastEvent' = Event("contactValidate", f)

\* utils.$$('input[required], textarea[required]', form)
RequiredInputs == {f \in ContactFields : fieldRequired[f]}

\* a mutation of ValidatedOnSubmit: validation stops at the first invalid field
ValidatedOnSubmit_ShortCircuit ==
    {f \in RequiredInputs : \A g \in RequiredInputs : g < f => FieldCheck(g).isValid}

\* inputs.forEach(input => { if (!this.validateField(input)) allValid = false })
ValidatedOnSubmit == RequiredInputs

AllValid == \A f \in RequiredInputs : FieldCheck(f).isValid

\* handleContactSubmission(form), up to its await.  A disabled submit
\* button blocks the form's submission.
ContactSubmit ==
    /\ contactCalls < MaxSubmits
    /\ ~cBtnDisabled
    /\ ValidateFields(ValidatedOnSubmit)
    /\ IF ~AllValid
          THEN /\ Announce("Please correct the errors in the form")
               /\ UNCHANGED <<cBtnDisabled, cBtnText, cOriginalText, cStage, contactCalls>>
          ELSE /\ cOriginalText' = cBtnText
               /\ cBtnDisabled' = TRUE
               /\ cBtnText' = "Sending..."
               /\ cStage' = "sending"
               /\ contactCalls' = contactCalls + 1
               /\ UNCHANGED announcerText
    /\ UNCHANGED <<fieldRequired, fieldValue, fieldPending>>
    /\ lastEvent' = Event("contactSubmit", 0)

\* submitContactForm resolves after 2000ms (it never rejects) and
\* handleContactSubmission resumes
ContactSettle ==
    /\ cStage = "sending"
    /\ cBtnText' = "Message Sent!"
    /\ Announce("Message sent successfully. We will respond within 48 hours.")
    /\ cStage' = "sent"
    /\ UNCHANGED <<fieldRequired, fieldValue, fieldInvalid, fieldErrorClass, fieldErrorText,
                   fieldPending, cBtnDisabled, cOriginalText, contactCalls>>
    /\ lastEvent' = Event("contactSettle", 0)

\* the 3000ms callback after success: form.reset() and the button restored
ContactRestore ==
    /\ cStage = "sent"
    /\ fieldValue' = [f \in ContactFields |-> EmptyValue]
    /\ cBtnDisabled' = FALSE
    /\ cBtnText' = cOriginalText
    /\ cStage' = "idle"
    /\ UNCHANGED <<fieldRequired, fieldInvalid, fieldErrorClass, fieldErrorText,
                   fieldPending, cOriginalText, contactCalls, announcerText>>
    /\ lastEvent' = Event("contactRestore", 0)

ContactInitWith(required) ==
    /\ fieldRequired = required
    /\ fieldValue = [f \in ContactFields |-> EmptyValue]
    /\ fieldInvalid = [f \in ContactFields |-> "none"]
    /\ fieldErrorClass = [f \in ContactFields |-> FALSE]
    /\ fieldErrorText = [f \in ContactFields |-> ""]
    /\ fieldPending = [f \in ContactFields |-> FALSE]
    /\ cBtnDisabled = FALSE
    /\ cBtnText = "Send Message"
    /\ cOriginalText = "Send Message"
    /\ cStage = "idle"
    /\ contactCalls = 0

ContactInit == \E required \in [ContactFields -> BOOLEAN] : ContactInitWith(required)

ContactIdle == ContactInitWith([f \in ContactFields |-> TRUE])

(***************************************************************************)
(* Modal: open / close and the email-capture form.  Delays are in ms and   *)
(* time passes in steps of TimeStep, which divides every delay.            *)
(***************************************************************************)
FocusDelay == 100
ExitDelay == 250
SubmitLatency == 1500
SuccessDelay == 2000
TimeStep == FocusDelay \div 2
EmailValues == {EmptyValue, NoDotEmail, GoodEmail, SpacedEmail}

\* some timer of the modal is at its deadline
ModalTimerDue ==
    \/ 0 \in mFocusTimers
    \/ 0 \in mExitTimers
    \/ mSettleTimer = 0
    \/ mSuccessTimer = 0

\* openModal(modal), what it does to the modal and the live region
OpenModalElement ==
    /\ modalHidden' = "false"
    /\ modalDisplay' = "flex"
    /\ mFocusTimers' = mFocusTimers \cup {FocusDelay}
    /\ Announce("Dialog opened")

\* openModal(modal)
OpenModal ==
    /\ OpenModalElement
    /\ bodyOverflow' = "hidden"

\* a mutation of CloseModal: the exit timer runs one time step longer
CloseModal_Late ==
    /\ modalHidden' = "true"
    /\ mExitTimers' = mExitTimers \cup {ExitDelay + TimeStep}
    /\ bodyOverflow' = ""
    /\ Announce("Dialog closed")

\* closeModal(modal), what it does to the modal and the live region
CloseModalElement ==
    /\ modalHidden' = "true"
    /\ mExitTimers' = mExitTimers \cup {ExitDelay}
    /\ Announce("Dialog closed")

\* closeModal(modal)
CloseModal ==
    /\ CloseModalElement
    /\ bodyOverflow' = ""

\* the click listener of a trigger of the email-capture modal
ModalTriggerClick ==
    /\ ~ModalTimerDue
    /\ OpenModal
    /\ UNCHANGED <<focusOn, mExitTimers, emailValue, mBtnDisabled, mBtnText, mBtnSuccess,
                   mErrorText, mOriginalText, mSettleTimer, mSuccessTimer, submitEmailCalls>>
    /\ lastEvent' = Event("modalTrigger", 0)

\* a mutation of ModalCloseClick: closing the modal cancels a pending
\* submission and a pending success callback
ModalCloseClick_Cancels ==
    /\ ~ModalTimerDue
    /\ modalDisplay = "flex"
    /\ CloseModal
    /\ mSettleTimer' = -1
    /\ mSuccessTimer' = -1
    /\ UNCHANGED <<modalDisplay, focusOn, mFocusTimers, emailValue, mBtnDisabled, mBtnText,
                   mBtnSuccess, mErrorText, mOriginalText, submitEmailCalls>>
    /\ lastEvent' = Event("modalClose", 0)

\* the click listener of a close button or of the overlay, both of which
\* are on screen while the modal is displayed
ModalCloseClick ==
    /\ ~ModalTimerDue
    /\ modalDisplay = "flex"
    /\ CloseModal
    /\ UNCHANGED <<modalDisplay, focusOn, mFocusTimers, emailValue, mBtnDisabled, mBtnText,
                   mBtnSuccess, mErrorText, mOriginalText, mSettleTimer, mSuccessTimer,
                   submitEmailCalls>>
    /\ lastEvent' = Event("modalClose", 0)

\* the document keydown listener of setupModalClose, for the Escape key
ModalEscape ==
    /\ ~ModalTimerDue
    /\ IF modalHidden = "false"
          THEN CloseModal
          ELSE UNCHANGED <<modalHidden, mExitTimers, bodyOverflow, announcerText>>
    /\ UNCHANGED <<modalDisplay, focusOn, mFocusTimers, emailValue, mBtnDisabled, mBtnText,
                   mBtnSuccess, mErrorText, mOriginalText, mSettleTimer, mSuccessTimer,
                   submitEmailCalls>>
    /\ lastEvent' = Event("modalEscape", 0)

\* () => firstFocusable.focus(), 100ms after openModal
ModalFocusTimer ==
    /\ 0 \in mFocusTimers
    /\ mFocusTimers' = mFocusTimers \ {0}
    /\ focusOn' = "modalFirst"
    /\ UNCHANGED <<modalHidden, modalDisplay, bodyOverflow, mExitTimers, emailValue,
                   mBtnDisabled, mBtnText, mBtnSuccess, mErrorText, mOriginalText,
                   mSettleTimer, mSuccessTimer, submitEmailCalls, announcerText>>
    /\ lastEvent' = Event("modalFocusTimer", 0)

\* () => modal.style.display = 'none', 250ms after closeModal
ModalExitTimer ==
    /\ 0 \in mExitTimers
    /\ mExitTimers' = mExitTimers \ {0}
    /\ modalDisplay' = "none"
    /\ UNCHANGED <<modalHidden, bodyOverflow, focusOn, mFocusTimers, emailValue,
                   mBtnDisabled, mBtnText, mBtnSuccess, mErrorText, mOriginalText,
                   mSettleTimer, mSuccessTimer, submitEmailCalls, announcerText>>
    /\ lastEvent' = Event("modalExitTimer", 0)

\* the user edits the email input of the displayed form
EmailInput(v) ==
    /\ ~ModalTimerDue
    /\ modalDisplay = "flex"
    /\ v # emailValue
    /\ emailValue' = v
    /\ UNCHANGED <<modalHidden, modalDisplay, bodyOverflow, focusOn, mFocusTimers,
                   mExitTimers, mBtnDisabled, mBtnText, mBtnSuccess, mErrorText,
                   mOriginalText, mSettleTimer, mSuccessTimer, submitEmailCalls,
                   announcerText>>
    /\ lastEvent' = Event("emailInput", 0)

\* a mutation of EmailRejected: the handler does not return after the error
EmailRejected_FallsThrough ==
    /\ mErrorText' = "Please enter a valid email address"
    /\ Announce("Please enter a valid email address")
    /\ mOriginalText' = mBtnText
    /\ mBtnDisabled' = TRUE
    /\ mBtnText' = "Subscribing..."
    /\ mSettleTimer' = SubmitLatency
    /\ submitEmailCalls' = Append(submitEmailCalls, emailValue)

\* handleEmailSubmission: if (!utils.isValidEmail(email)) { ...; return; }
EmailRejected ==
    /\ mErrorText' = "Please enter a valid email address"
    /\ Announce("Please enter a valid email address")
    /\ UNCHANGED <<mBtnDisabled, mBtnText, mOriginalText, mSettleTimer, submitEmailCalls>>

\* a mutation of EmailAccepted: the submit button is left enabled
EmailAccepted_StaysEnabled ==
    /\ mErrorText' = ""
    /\ mOriginalText' = mBtnText
    /\ mBtnDisabled' = FALSE
    /\ mBtnText' = "Subscribing..."
    /\ mSettleTimer' = SubmitLatency
    /\ submitEmailCalls' = Append(submitEmailCalls, emailValue)
    /\ UNCHANGED announcerText

\* handleEmailSubmission from "Disable submit button" to its await, with
\* submitEmail's 1500ms timer started
EmailAccepted ==
    /\ mErrorText' = ""
    /\ mOriginalText' = mBtnText
    /\ mBtnDisabled' = TRUE
    /\ mBtnText' = "Subscribing..."
    /\ mSettleTimer' = SubmitLatency
    /\ submitEmailCalls' = Append(submitEmailCalls, emailValue)
    /\ UNCHANGED announcerText

\* the submit listener of the modal's form: handleEmailSubmission up to its
\* return or await.  A disabled submit button blocks the form's submission.
EmailSubmit ==
    /\ ~ModalTimerDue
    /\ modalDisplay = "flex"
    /\ ~mBtnDisabled
    /\ IsValidEmail(emailValue) => Len(submitEmailCalls) < MaxSubmits
    /\ IF ~IsValidEmail(emailValue) THEN EmailRejected ELSE EmailAccepted
    /\ UNCHANGED <<modalHidden, modalDisplay, bodyOverflow, focusOn, mFocusTimers,
                   mExitTimers, emailValue, mBtnSuccess, mSuccessTimer>>
    /\ lastEvent' = Event("emailSubmit", 0)

\* submitEmail settles after 1500ms, resolved or rejected, and
\* handleEmailSubmission resumes after its await
EmailSettle(resolved) ==
    /\ mSettleTimer = 0
    /\ mSettleTimer' = -1
    /\ IF resolved
          THEN /\ mBtnText' = "Subscribed!"
               /\ mBtnSuccess' = TRUE
               /\ Announce("Successfully subscribed to newsletter")
               /\ mSuccessTimer' = SuccessDelay
               /\ UNCHANGED <<mErrorText, mBtnDisabled>>
          ELSE /\ mErrorText' = "Something went wrong. Please try again."
               /\ mBtnDisabled' = FALSE
               /\ mBtnText' = mOriginalText
               /\ Announce("Subscription failed. Please try again.")
               /\ UNCHANGED <<mBtnSuccess, mSuccessTimer>>
    /\ UNCHANGED <<modalHidden, modalDisplay, bodyOverflow, focusOn, mFocusTimers,
                   mExitTimers, emailValue, mOriginalText, submitEmailCalls>>
    /\ lastEvent' = Event("emailSettle", 0)

\* the 2000ms callback after success: closeModal, form.reset(), button restored
EmailSuccessTimer ==
    /\ mSuccessTimer = 0
    /\ mSuccessTimer' = -1
    /\ CloseModal
    /\ emailValue' = EmptyValue
    /\ mBtnDisabled' = FALSE
    /\ mBtnText' = mOriginalText
    /\ mBtnSuccess' = FALSE
    /\ UNCHANGED <<modalDisplay, focusOn, mFocusTimers, mErrorText, mOriginalText,
                   mSettleTimer, submitEmailCalls>>
    /\ lastEvent' = Event("emailSuccessTimer", 0)

Elapse(t) == IF t > 0 THEN t - TimeStep ELSE t

\* TimeStep ms pass: no timer is due and some timer is running
ModalAdvance ==
    /\ ~ModalTimerDue
    /\ mFocusTimers # {} \/ mExitTimers # {} \/ mSettleTimer > 0 \/ mSuccessTimer > 0
    /\ mFocusTimers' = {Elapse(t) : t \in mFocusTimers}
    /\ mExitTimers' = {Elapse(t) : t \in mExitTimers}
    /\ mSettleTimer' = Elapse(mSettleTimer)
    /\ mSuccessTimer' = Elapse(mSuccessTimer)
    /\ UNCHANGED <<modalHidden, modalDisplay, bodyOverflow, focusOn, emailValue,
                   mBtnDisabled, mBtnText, mBtnSuccess, mErrorText, mOriginalText,
                   submitEmailCalls, announcerText>>
    /\ lastEvent' = Event("modalAdvance", 0)

ModalInit ==
    /\ modalHidden = "true"
    /\ modalDisplay = "none"
    /\ bodyOverflow = ""
    /\ focusOn = "page"
    /\ mFocusTimers = {}
    /\ mExitTimers = {}
    /\ emailValue = EmptyValue
    /\ mBtnDisabled = FALSE
    /\ mBtnText = "Subscribe"
    /\ mBtnSuccess = FALSE
    /\ mErrorText = ""
    /\ mOriginalText = "Subscribe"
    /\ mSettleTimer = -1
    /\ mSuccessTimer = -1
    /\ submitEmailCalls = <<>>

(***************************************************************************)
(* Navigation.setupMobileMenu, and the events of the page that reach both  *)
(* its document listeners and the modal's.  Navigation.init() runs before  *)
(* Modal.init(), so on a document event Navigation's listener runs first;  *)
(* a click listener on the target element runs before the document's.      *)
(***************************************************************************)

\* the three writes every closing path makes to the toggle and the menu
NavSetClosed ==
    /\ navToggleExpanded' = "false"
    /\ navMenuExpanded' = "false"
    /\ navActive' = FALSE

\* a mutation of NavOutsideClick: the active class is left on the toggle
NavOutsideClick_KeepsClass ==
    /\ navToggleExpanded' = "false"
    /\ navMenuExpanded' = "false"
    /\ bodyOverflow' = ""
    /\ UNCHANGED navActive

\* the document click listener of setupMobileMenu, for a target outside the
\* toggle and the menu
NavOutsideClick ==
    /\ NavSetClosed
    /\ bodyOverflow' = ""

\* a mutation of NavToggleHandler: aria-expanded is written on the toggle only
NavToggleHandler_OwnAttribute ==
    LET isExpanded == navToggleExpanded = "true" IN
    /\ navToggleExpanded' = BoolString(~isExpanded)
    /\ navMenuExpanded' = navMenuExpanded
    /\ navActive' = ~navActive
    /\ bodyOverflow' = IF isExpanded THEN "" ELSE "hidden"
    /\ Announce(IF isExpanded THEN "Menu closed" ELSE "Menu opened")

\* the click listener of the toggle
NavToggleHandler ==
    LET isExpanded == navToggleExpanded = "true" IN
    /\ navToggleExpanded' = BoolString(~isExpanded)
    /\ navMenuExpanded' = BoolString(~isExpanded)
    /\ navActive' = ~navActive
    /\ bodyOverflow' = IF isExpanded THEN "" ELSE "hidden"
    /\ Announce(IF isExpanded THEN "Menu closed" ELSE "Menu opened")

\* a click on the toggle: its own listener runs; the document listener
\* finds the target inside the toggle and does nothing
NavToggleClick ==
    /\ ~ModalTimerDue
    /\ NavToggleHandler
    /\ UNCHANGED <<modalHidden, modalDisplay, focusOn, mFocusTimers, mExitTimers,
                   emailValue, mBtnDisabled, mBtnText, mBtnSuccess, mErrorText,
                   mOriginalText, mSettleTimer, mSuccessTimer, submitEmailCalls>>
    /\ lastEvent' = Event("navToggle", 0)

\* a click on an element outside the toggle and the menu that has no click
\* listener of its own
PageOutsideClick ==
    /\ ~ModalTimerDue
    /\ NavOutsideClick
    /\ UNCHANGED <<modalHidden, modalDisplay, focusOn, mFocusTimers, mExitTimers,
                   emailValue, mBtnDisabled, mBtnText, mBtnSuccess, mErrorText,
                   mOriginalText, mSettleTimer, mSuccessTimer, submitEmailCalls,
                   announcerText>>
    /\ lastEvent' = Event("outsideClick", 0)

\* a click on a trigger of the modal: the trigger's listener calls
\* openModal, then the click reaches the document listener of
\* setupMobileMenu, which acts unless the trigger sits inside the menu
PageTriggerClick(inMenu) ==
    /\ ~ModalTimerDue
    /\ OpenModalElement
    /\ IF inMenu
          THEN bodyOverflow' = "hidden" /\ UNCHANGED navVars
          ELSE NavOutsideClick
    /\ UNCHANGED <<focusOn, mExitTimers, emailValue, mBtnDisabled, mBtnText, mBtnSuccess,
                   mErrorText, mOriginalText, mSettleTimer, mSuccessTimer, submitEmailCalls>>
    /\ lastEvent' = Event("modalTrigger", IF inMenu THEN 1 ELSE 0)

\* a click on a close button or on the overlay of the displayed modal: its
\* listener calls closeModal, then the document listener of setupMobileMenu
\* runs (the modal is outside the menu)
PageCloseClick ==
    /\ ~ModalTimerDue
    /\ modalDisplay = "flex"
    /\ CloseModal
    /\ NavOutsideClick
    /\ UNCHANGED <<modalDisplay, focusOn, mFocusTimers, emailValue, mBtnDisabled, mBtnText,
                   mBtnSuccess, mErrorText, mOriginalText, mSettleTimer, mSuccessTimer,
                   submitEmailCalls>>
    /\ lastEvent' = Event("modalClose", 0)

\* an Escape keydown: the document listener of setupMobileMenu, then the
\* document listener of setupModalClose
PageEscape ==
    LET menuOpen == navToggleExpanded = "true"
        modalOpen == modalHidden = "false" IN
    /\ ~ModalTimerDue
    /\ IF menuOpen
          THEN NavSetClosed /\ focusOn' = "navToggle"
          ELSE UNCHANGED <<navVars, focusOn>>
    /\ IF modalOpen
          THEN CloseModalElement
          ELSE UNCHANGED <<modalHidden, mExitTimers, announcerText>>
    /\ bodyOverflow' = IF menuOpen \/ modalOpen THEN "" ELSE bodyOverflow
    /\ UNCHANGED <<modalDisplay, mFocusTimers, emailValue, mBtnDisabled, mBtnText,
                   mBtnSuccess, mErrorText, mOriginalText, mSettleTimer, mSuccessTimer,
                   submitEmailCalls>>
    /\ lastEvent' = Event("escape", 0)

\* the markup: the menu is closed, with or without aria-expanded attributes
NavInit ==
    /\ navToggleExpanded \in {"false", "none"}
    /\ navMenuExpanded \in {"false", "none"}
    /\ navActive = FALSE

NavIdle ==
    /\ navToggleExpanded = "false"
    /\ navMenuExpanded = "false"
    /\ navActive = FALSE

(***************************************************************************)
(* Navigation.setupDropdowns: one dropdown item                            *)
(***************************************************************************)
GraceDelay == 150
DropTimeStep == GraceDelay \div 3
DropKeys == {"Enter", " ", "Tab"}

DropTimerDue == 0 \in ddTimers

\* the mouseenter listener of the item
DropMouseEnter ==
    /\ ~DropTimerDue
    /\ ~ddHover
    /\ ddHover' = TRUE
    /\ ddExpanded' = "true"
    /\ ddDisplay' = "block"
    /\ UNCHANGED <<ddTimers, ddSinceLeave>>
    /\ lastEvent' = Event("dropEnter", 0)

\* the mouseleave listener of the item
DropMouseLeave ==
    /\ ~DropTimerDue
    /\ ddHover
    /\ ddHover' = FALSE
    /\ ddExpanded' = "false"
    /\ ddTimers' = ddTimers \cup {GraceDelay}
    /\ ddSinceLeave' = 0
    /\ UNCHANGED ddDisplay
    /\ lastEvent' = Event("dropLeave", 0)

\* the 150ms callback of the mouseleave listener
DropTimer ==
    /\ DropTimerDue
    /\ ddTimers' = ddTimers \ {0}
    /\ ddDisplay' = IF ddExpanded = "false" THEN "none" ELSE ddDisplay
    /\ UNCHANGED <<ddHover, ddExpanded, ddSinceLeave>>
    /\ lastEvent' = Event("dropTimer", 0)

\* the keydown listener of the link
DropKeydown(key) ==
    LET isExpanded == ddExpanded = "true" IN
    /\ ~DropTimerDue
    /\ IF key \in {"Enter", " "}
          THEN /\ ddExpanded' = BoolString(~isExpanded)
               /\ ddDisplay' = IF isExpanded THEN "none" ELSE "block"
          ELSE UNCHANGED <<ddExpanded, ddDisplay>>
    /\ UNCHANGED <<ddHover, ddTimers, ddSinceLeave>>
    /\ lastEvent' = Event("dropKeydown", IF key \in {"Enter", " "} THEN 1 ELSE 0)

\* DropTimeStep ms pass: no timer is due
DropAdvance ==
    /\ ~DropTimerDue
    /\ ddTimers # {} \/ ddSinceLeave \in 0..(GraceDelay - 1)
    /\ ddTimers' = {t - DropTimeStep : t \in ddTimers}
    /\ ddSinceLeave' = IF ddSinceLeave \in 0..(GraceDelay - 1)
                          THEN ddSinceLeave + DropTimeStep
                          ELSE ddSinceLeave
    /\ UNCHANGED <<ddHover, ddExpanded, ddDisplay>>
    /\ lastEvent' = Event("dropAdvance", 0)

\* the markup: the dropdown is hidden, the pointer elsewhere
DropInitWith(expanded) ==
    /\ ddHover = FALSE
    /\ ddExpanded = expanded
    /\ ddDisplay = "none"
    /\ ddTimers = {}
    /\ ddSinceLeave = -1

DropInit == \E expanded \in {"false", "none"} : DropInitWith(expanded)

DropIdle == DropInitWith("false")

(***************************************************************************)
(* Forms: the newsletter form.  Its submit listener calls                  *)
(* handleNewsletterSubmission, which uses the modal's submitEmail stub.    *)
(* Timers with the same deadline run in the order they were set, so a      *)
(* 3000ms timer runs before a submitEmail timer that is due with it.       *)
(***************************************************************************)
MaxNewsSubmits == 3
NewsSuccessDelay == 3000
NewsRetryDelay == 3000
NewsTimeStep == SubmitLatency \div 3
NewsValues == {EmptyValue, NoDotEmail, GoodEmail}

\* validateField(emailField): its isValid and message
NewsFieldCheck ==
    LET missing == nlRequired /\ Trim(nlValue) = <<>>
        badEmail == nlValue # <<>> /\ ~IsValidEmail(nlValue)
    IN  [isValid |-> ~missing /\ ~badEmail,
         message |-> IF badEmail THEN "Please enter a valid email address"
                     ELSE IF missing THEN "This field is required"
                     ELSE ""]

NewsRetryDue == \E t \in nlRetryTimers : t.left = 0

NewsTimerDue == nlSettleTimer = 0 \/ nlSuccessTimer = 0 \/ NewsRetryDue

\* the user edits the email field
NewsInput(v) ==
    /\ ~NewsTimerDue
    /\ v # nlValue
    /\ nlValue' = v
    /\ UNCHANGED <<nlRequired, nlInvalid, nlErrorText, nlBtnDisabled, nlBtnText,
                   nlBtnSuccess, nlOriginalText, nlSettleTimer, nlSuccessTimer,
                   nlRetryTimers, submitEmailCalls, announcerText>>
    /\ lastEvent' = Event("newsInput", 0)

\* the submit listener of the form: handleNewsletterSubmission up to its
\* return or await.  A disabled submit button blocks the form's submission.
NewsSubmit ==
    /\ ~NewsTimerDue
    /\ ~nlBtnDisabled
    /\ NewsFieldCheck.isValid => Len(submitEmailCalls) < MaxNewsSubmits
    /\ nlErrorText' = NewsFieldCheck.message
    /\ nlInvalid' = BoolString(~NewsFieldCheck.isValid)
    /\ IF ~NewsFieldCheck.isValid
          THEN UNCHANGED <<nlBtnDisabled, nlBtnText, nlOriginalText, nlSettleTimer,
                           submitEmailCalls>>
          ELSE /\ nlOriginalText' = nlBtnText
               /\ nlBtnDisabled' = TRUE
               /\ nlBtnText' = "Subscribing..."
               /\ nlSettleTimer' = SubmitLatency
               /\ submitEmailCalls' = Append(submitEmailCalls, nlValue)
    /\ UNCHANGED <<nlRequired, nlValue, nlBtnSuccess, nlSuccessTimer, nlRetryTimers,
                   announcerText>>
    /\ lastEvent' = Event("newsSubmit", 0)

\* submitEmail settles after 1500ms, resolved or rejected, and
\* handleNewsletterSubmission resumes after its await
NewsSettle(resolved) ==
    /\ nlSettleTimer = 0
    /\ nlSuccessTimer # 0 /\ ~NewsRetryDue
    /\ nlSettleTimer' = -1
    /\ IF resolved
          THEN /\ nlBtnText' = "Subscribed!"
               /\ nlBtnSuccess' = TRUE
               /\ Announce("Successfully subscribed to newsletter")
               /\ nlSuccessTimer' = NewsSuccessDelay
               /\ UNCHANGED <<nlBtnDisabled, nlRetryTimers>>
          ELSE /\ nlBtnDisabled' = FALSE
               /\ nlBtnText' = "Try Again"
               /\ Announce("Subscription failed. Please try again.")
               /\ nlRetryTimers' = nlRetryTimers \cup
                                      {[left |-> NewsRetryDelay, text |-> nlOriginalText]}
               /\ UNCHANGED <<nlBtnSuccess, nlSuccessTimer>>
    /\ UNCHANGED <<nlRequired, nlValue, nlInvalid, nlErrorText, nlOriginalText,
                   submitEmailCalls>>
    /\ lastEvent' = Event("newsSettle", 0)

\* the 3000ms callback after success: form.reset(), button restored
NewsSuccessTimer ==
    /\ nlSuccessTimer = 0
    /\ nlSuccessTimer' = -1
    /\ nlValue' = EmptyValue
    /\ nlBtnDisabled' = FALSE
    /\ nlBtnText' = nlOriginalText
    /\ nlBtnSuccess' = FALSE
    /\ UNCHANGED <<nlRequired, nlInvalid, nlErrorText, nlOriginalText, nlSettleTimer,
                   nlRetryTimers, submitEmailCalls, announcerText>>
    /\ lastEvent' = Event("newsSuccessTimer", 0)

\* the 3000ms callback after a failure: submitBtn.textContent = originalText
NewsRetryTimer ==
    /\ \E t \in nlRetryTimers :
          /\ t.left = 0
          /\ nlRetryTimers' = nlRetryTimers \ {t}
          /\ nlBtnText' = t.text
    /\ UNCHANGED <<nlRequired, nlValue, nlInvalid, nlErrorText, nlBtnDisabled,
                   nlBtnSuccess, nlOriginalText, nlSettleTimer, nlSuccessTimer,
                   submitEmailCalls, announcerText>>
    /\ lastEvent' = Event("newsRetryTimer", 0)

NewsElapse(t) == IF t > 0 THEN t - NewsTimeStep ELSE t

\* NewsTimeStep ms pass: no timer is due and some timer is running
NewsAdvance ==
    /\ ~NewsTimerDue
    /\ nlSettleTimer > 0 \/ nlSuccessTimer > 0 \/ nlRetryTimers # {}
    /\ nlSettleTimer' = NewsElapse(nlSettleTimer)
    /\ nlSuccessTimer' = NewsElapse(nlSuccessTimer)
    /\ nlRetryTimers' = {[t EXCEPT !.left = NewsElapse(t.left)] : t \in nlRetryTimers}
    /\ UNCHANGED <<nlRequired, nlValue, nlInvalid, nlErrorText, nlBtnDisabled, nlBtnText,
                   nlBtnSuccess, nlOriginalText, submitEmailCalls, announcerText>>
    /\ lastEvent' = Event("newsAdvance", 0)

NewsInitWith(required) ==
    /\ nlRequired = required
    /\ nlValue = EmptyValue
    /\ nlInvalid = "none"
    /\ nlErrorText = ""
    /\ nlBtnDisabled = FALSE
    /\ nlBtnText = "Subscribe"
    /\ nlBtnSuccess = FALSE
    /\ nlOriginalText = "Subscribe"
    /\ nlSettleTimer = -1
    /\ nlSuccessTimer = -1
    /\ nlRetryTimers = {}

\* the markup: the email field with or without the required attribute
NewsInit == \E required \in BOOLEAN : NewsInitWith(required)

NewsIdle == NewsInitWith(TRUE)

(***************************************************************************)
(* PrismOfTorah: init() and initializeComponents()                         *)
(***************************************************************************)
Components == <<"Navigation", "AudioPlayer", "Modal", "Forms", "FAQ", "Search",
                "ScrollEffects", "Animations", "Theme", "ErrorHandler", "Performance">>
NumComponents == Len(Components)

\* entry of initializeComponents(): the try block starts at its first call
EnterInitializeComponents ==
    /\ initPhase' = "running"
    /\ initPc' = 1
    /\ initRuns' = initRuns + 1

\* a mutation of InitWhenReady: init() does not look at document.readyState
InitWhenReady_Eager ==
    EnterInitializeComponents

\* init(): if (document.readyState === 'loading') addEventListener(…) else
\* this.initializeComponents()
InitWhenReady ==
    IF readyState = "loading"
       THEN initPhase' = "waiting" /\ UNCHANGED <<initPc, initRuns>>
       ELSE EnterInitializeComponents

\* PrismOfTorah.init(), run once when the script is evaluated
ScriptStart ==
    /\ ~scriptRan
    /\ scriptRan' = TRUE
    /\ InitWhenReady
    /\ UNCHANGED <<readyState, initCalled, initialized, initThrew, errorLogged,
                   successLogged, announcerText>>
    /\ lastEvent' = Event("scriptStart", 0)

\* the document finishes parsing: DOMContentLoaded runs the listener, if
\* init() added one
DOMContentLoaded ==
    /\ readyState = "loading"
    /\ scriptRan
    /\ readyState' = "interactive"
    /\ IF initPhase = "waiting"
          THEN EnterInitializeComponents
          ELSE UNCHANGED <<initPhase, initPc, initRuns>>
    /\ UNCHANGED <<scriptRan, initCalled, initialized, initThrew, errorLogged,
                   successLogged, announcerText>>
    /\ lastEvent' = Event("DOMContentLoaded", 0)

\* a mutation of CatchError: the next component's init() is still called
CatchError_Continue(k) ==
    /\ errorLogged' = TRUE
    /\ initPhase' = "running"
    /\ initPc' = k + 1

\* catch (error) { console.error(…) }: the one catch block around all the
\* init() calls, entered from the call of component k
CatchError(k) ==
    /\ errorLogged' = TRUE
    /\ initPhase' = "failed"
    /\ initPc' = k

\* one init() call of the try block; it returns or it throws
InitComponent(throws) ==
    /\ initPhase = "running"
    /\ initPc \in 1..NumComponents
    /\ initCalled' = Append(initCalled, Components[initPc])
    /\ IF throws
          THEN /\ CatchError(initPc)
               /\ initThrew' = IF initThrew = 0 THEN initPc ELSE initThrew
               /\ UNCHANGED initialized
          ELSE /\ initialized' = initialized \cup {Components[initPc]}
               /\ initPc' = initPc + 1
               /\ UNCHANGED <<initPhase, initThrew, errorLogged>>
    /\ UNCHANGED <<readyState, scriptRan, initRuns, successLogged, announcerText>>
    /\ lastEvent' = Event("initComponent", initPc)

\* the end of the try block, after Performance.init() returned
InitFinish ==
    /\ initPhase = "running"
    /\ initPc = NumComponents + 1
    /\ successLogged' = TRUE
    /\ Announce("Page loaded")
    /\ initPhase' = "done"
    /\ UNCHANGED <<readyState, scriptRan, initPc, initCalled, initialized, initThrew,
                   initRuns, errorLogged>>
    /\ lastEvent' = Event("initFinish", 0)

\* initializeComponents has returned and component c has its listeners
HandlersLive(c) == initPhase \in {"done", "failed"} /\ c \in initialized

\* the page while or after it loads, before the script is evaluated
OrchInit ==
    /\ readyState \in {"loading", "interactive", "complete"}
    /\ scriptRan = FALSE
    /\ initPhase = "idle"
    /\ initPc = 0
    /\ initCalled = <<>>
    /\ initialized = {}
    /\ initThrew = 0
    /\ initRuns = 0
    /\ errorLogged = FALSE
    /\ successLogged = FALSE

\* the page after an initialization in which no init() threw
OrchDone ==
    /\ readyState = "complete"
    /\ scriptRan = TRUE
    /\ initPhase = "done"
    /\ initPc = NumComponents + 1
    /\ initCalled = Components
    /\ initialized = {Components[k] : k \in 1..NumComponents}
    /\ initThrew = 0
    /\ initRuns = 1
    /\ errorLogged = FALSE
    /\ successLogged = TRUE

(***************************************************************************)
(* ScrollEffects.setupHeaderScroll: handleScroll behind a 10ms throttle    *)
(***************************************************************************)
ScrolledAbove == 100
HiddenAbove == 200
HeaderThrottleLimit == 10
ScrollOffsets == {0, 50, 150, 250, 350}

\* the function handed to utils.throttle
HandleScroll(currentScroll) ==
    /\ headerScrolled' = (currentScroll > ScrolledAbove)
    /\ headerHidden' = (currentScroll > lastScroll /\ currentScroll > HiddenAbove)
    /\ lastScroll' = currentScroll

\* a scroll event: the page moves to offset y and the throttled listener runs
Scroll(y) ==
    /\ y # pageYOffset
    /\ hTimer # 0
    /\ prevYOffset' = pageYOffset
    /\ pageYOffset' = y
    /\ IF ~hInThrottle
          THEN /\ HandleScroll(y)
               /\ hInThrottle' = TRUE
               /\ hTimer' = HeaderThrottleLimit
          ELSE UNCHANGED <<lastScroll, headerScrolled, headerHidden, hInThrottle, hTimer>>
    /\ lastEvent' = Event("scroll", y)

\* () => inThrottle = false, the reset timer of the header's throttle
HeaderThrottleReset ==
    /\ hTimer = 0
    /\ hInThrottle' = FALSE
    /\ hTimer' = -1
    /\ UNCHANGED <<pageYOffset, prevYOffset, lastScroll, headerScrolled, headerHidden>>
    /\ lastEvent' = Event("headerThrottleReset", 0)

\* one millisecond passes
HeaderMs ==
    /\ hTimer # 0
    /\ hTimer' = IF hTimer > 0 THEN hTimer - 1 ELSE hTimer
    /\ UNCHANGED <<pageYOffset, prevYOffset, lastScroll, headerScrolled, headerHidden,
                   hInThrottle>>
    /\ lastEvent' = Event("ms", 0)

HeaderInit ==
    /\ pageYOffset = 0
    /\ prevYOffset = 0
    /\ lastScroll = 0
    /\ headerScrolled = FALSE
    /\ headerHidden = FALSE
    /\ hInThrottle = FALSE
    /\ hTimer = -1

(***************************************************************************)
(* ScrollEffects.setupScrollToTop: toggleVisibility behind a 100ms         *)
(* throttle.  Time passes in steps of TopTimeStep, which divides the limit.*)
(***************************************************************************)
VisibleAbove == 300
TopThrottleLimit == 100
TopTimeStep == TopThrottleLimit \div 10
TopOffsets == {0, 150, VisibleAbove, VisibleAbove + 1, 450, 600}

\* the function handed to utils.throttle
ToggleVisibility(y) == topVisible' = (y > VisibleAbove)

\* the throttled listener, called by a scroll event at offset y
TopListener(y) ==
    IF ~topInThrottle
       THEN /\ ToggleVisibility(y)
            /\ topInThrottle' = TRUE
            /\ topTimer' = TopThrottleLimit
       ELSE UNCHANGED <<topVisible, topInThrottle, topTimer>>

\* the header's part of the window state, untouched by this listener
TopHeaderRest == <<prevYOffset, lastScroll, headerScrolled, headerHidden, hInThrottle, hTimer>>

\* a scroll event: the page moves to offset y and the throttled listener runs
TopScroll(y) ==
    /\ y # pageYOffset
    /\ topTimer # 0
    /\ pageYOffset' = y
    /\ TopListener(y)
    /\ UNCHANGED TopHeaderRest
    /\ lastEvent' = Event("topScroll", y)

\* a click on the button: window.scrollTo({top: 0, behavior: 'smooth'}); the
\* scroll event that ends the scrolling arrives with the page at offset 0
TopClick ==
    /\ pageYOffset > 0
    /\ topTimer # 0
    /\ pageYOffset' = 0
    /\ TopListener(0)
    /\ UNCHANGED TopHeaderRest
    /\ lastEvent' = Event("topClick", 0)

\* () => inThrottle = false, the reset timer of the throttle
TopThrottleReset ==
    /\ topTimer = 0
    /\ topInThrottle' = FALSE
    /\ topTimer' = -1
    /\ UNCHANGED <<topVisible, headerVars>>
    /\ lastEvent' = Event("topThrottleReset", 0)

\* TopTimeStep ms pass
TopAdvance ==
    /\ topTimer > 0
    /\ topTimer' = topTimer - TopTimeStep
    /\ UNCHANGED <<topVisible, topInThrottle, headerVars>>
    /\ lastEvent' = Event("topAdvance", 0)

TopIdle ==
    /\ topVisible = FALSE
    /\ topInThrottle = FALSE
    /\ topTimer = -1

(***************************************************************************)
(* Search.setupSearch: performSearch on submit and behind a 500ms debounce *)
(* on input.  Time passes in steps of SearchTimeStep, which divides the    *)
(* wait.                                                                   *)
(***************************************************************************)
SearchWait == 500
MinQueryLength == 2
SearchTimeStep == SearchWait \div 5
SearchValues == {<<>>, <<"t">>, <<"t", "o">>, <<"t", "o", "r">>, <<"t", "o", "r", "a">>}

\* the characters of a field value, as the string a template literal makes
RECURSIVE Text(_)
Text(chars) == IF chars = <<>> THEN "" ELSE Head(chars) \o Text(Tail(chars))

NoSearch == [called |-> FALSE, query |-> <<>>]

\* performSearch(query)
PerformSearch(query) ==
    /\ srCall' = [called |-> TRUE, query |-> query]
    /\ Announce("Searching for \"" \o Text(query) \o "\"")

\* a mutation of LongEnough: two characters are enough
LongEnough_FromTwo(value) == Len(value) >= MinQueryLength

\* e.target.value.length > 2
LongEnough(value) == Len(value) > MinQueryLength

\* the user edits the search field: the input listener (re)starts the
\* debounce's timeout
SearchInput(v) ==
    /\ srTimer # 0
    /\ v # srValue
    /\ srValue' = v
    /\ srTimer' = SearchWait
    /\ srSinceInput' = 0
    /\ srCall' = NoSearch
    /\ UNCHANGED announcerText
    /\ lastEvent' = Event("searchInput", Len(v))

\* the submit listener of the search form
SearchSubmit ==
    /\ srTimer # 0
    /\ PerformSearch(srValue)
    /\ UNCHANGED <<srValue, srTimer, srSinceInput>>
    /\ lastEvent' = Event("searchSubmit", Len(srValue))

\* later(), the debounce's timeout callback: the live-search function runs
\* with the input event of the last call, whose target is the search field
SearchDebounced ==
    /\ srTimer = 0
    /\ srTimer' = -1
    /\ IF LongEnough(srValue)
          THEN PerformSearch(srValue)
          ELSE /\ srCall' = NoSearch
               /\ UNCHANGED announcerText
    /\ UNCHANGED <<srValue, srSinceInput>>
    /\ lastEvent' = Event("searchDebounced", Len(srValue))

\* SearchTimeStep ms pass
SearchAdvance ==
    /\ srTimer > 0
    /\ srTimer' = srTimer - SearchTimeStep
    /\ srSinceInput' = IF srSinceInput \in 0..(SearchWait - 1)
                          THEN srSinceInput + SearchTimeStep
                          ELSE srSinceInput
    /\ srCall' = NoSearch
    /\ UNCHANGED <<srValue, announcerText>>
    /\ lastEvent' = Event("searchAdvance", 0)

SearchIdle ==
    /\ srValue = <<>>
    /\ srTimer = -1
    /\ srSinceInput = -1
    /\ srCall = NoSearch

(***************************************************************************)
(* Specifications                                                          *)
(***************************************************************************)
vars == <<lastEvent, announcerText, faqVars, playerVars, timingVars, headerVars, contactVars, modalVars, navVars, newsVars, searchVars, topVars, dropVars, formatVars, emailCheckVars, orchVars>>

CommonInit ==
    /\ lastEvent = Event("load", 0)
    /\ announcerText = ""

\* ---- the FAQ accordion alone
FaqNext ==
    \/ \E item \in FaqItems : FaqClick(item) /\ UNCHANGED <<playerVars, timingVars, headerVars, contactVars, modalVars, navVars, newsVars, searchVars, topVars, dropVars, formatVars, emailCheckVars, orchVars>>
    \/ \E item \in FaqItems, key \in FaqKeys : FaqKeydown(item, key) /\ UNCHANGED <<playerVars, timingVars, headerVars, contactVars, modalVars, navVars, newsVars, searchVars, topVars, dropVars, formatVars, emailCheckVars, orchVars>>
    \/ AnnounceClear /\ UNCHANGED <<faqVars, playerVars, timingVars, headerVars, contactVars, modalVars, navVars, newsVars, searchVars, topVars, dropVars, formatVars, emailCheckVars, orchVars>>

FaqSpecInit ==
    /\ CommonInit
    /\ FaqInit
    /\ PlayerInit
    /\ TimingInit
    /\ HeaderInit
    /\ ContactIdle
    /\ ModalInit
    /\ NavIdle
    /\ NewsIdle
    /\ SearchIdle
    /\ TopIdle
    /\ DropIdle
    /\ FormatIdle
    /\ EmailCheckIdle
    /\ OrchDone

SpecFaq == FaqSpecInit /\ [][FaqNext]_vars

\* ---- the audio players alone
PlayerNext ==
    \/ \E player \in Players : PlayClick(player) /\ UNCHANGED <<faqVars, timingVars, headerVars, contactVars, modalVars, navVars, newsVars, searchVars, topVars, dropVars, formatVars, emailCheckVars, orchVars>>
    \/ \E player \in Players : UpdateProgress(player) /\ UNCHANGED <<faqVars, timingVars, headerVars, contactVars, modalVars, navVars, newsVars, searchVars, topVars, dropVars, formatVars, emailCheckVars, orchVars>>
    \/ \E player \in Players : VolumeClick(player) /\ UNCHANGED <<faqVars, timingVars, headerVars, contactVars, modalVars, navVars, newsVars, searchVars, topVars, dropVars, formatVars, emailCheckVars, orchVars>>
    \/ AnnounceClear /\ UNCHANGED <<faqVars, playerVars, timingVars, headerVars, contactVars, modalVars, navVars, newsVars, searchVars, topVars, dropVars, formatVars, emailCheckVars, orchVars>>

PlayerSpecInit ==
    /\ CommonInit
    /\ FaqIdle
    /\ PlayerInit
    /\ TimingInit
    /\ HeaderInit
    /\ ContactIdle
    /\ ModalInit
    /\ NavIdle
    /\ NewsIdle
    /\ SearchIdle
    /\ TopIdle
    /\ DropIdle
    /\ FormatIdle
    /\ EmailCheckIdle
    /\ OrchDone

SpecPlayer == PlayerSpecInit /\ [][PlayerNext]_vars

\* ---- the debounced wrapper alone
DebounceOthers == <<announcerText, faqVars, playerVars, headerVars, contactVars, modalVars, navVars, newsVars, searchVars, topVars, dropVars, formatVars, emailCheckVars, orchVars>>

DebounceNext ==
    \/ \E args \in ArgValues : DebounceCall(args) /\ UNCHANGED DebounceOthers
    \/ DebounceLater /\ UNCHANGED DebounceOthers
    \/ Tick /\ UNCHANGED DebounceOthers

DebounceSpecInit ==
    /\ CommonInit
    /\ FaqIdle
    /\ PlayerInit
    /\ TimingInit
    /\ HeaderInit
    /\ ContactIdle
    /\ ModalInit
    /\ NavIdle
    /\ NewsIdle
    /\ SearchIdle
    /\ TopIdle
    /\ DropIdle
    /\ FormatIdle
    /\ EmailCheckIdle
    /\ OrchDone

SpecDebounce == DebounceSpecInit /\ [][DebounceNext]_vars

\* ---- the throttled wrapper alone
ThrottleNext ==
    \/ \E args \in ArgValues : ThrottleCall(args) /\ UNCHANGED DebounceOthers
    \/ ThrottleReset /\ UNCHANGED DebounceOthers
    \/ Tick /\ UNCHANGED DebounceOthers

ThrottleSpecInit ==
    /\ CommonInit
    /\ FaqIdle
    /\ PlayerInit
    /\ TimingInit
    /\ HeaderInit
    /\ ContactIdle
    /\ ModalInit
    /\ NavIdle
    /\ NewsIdle
    /\ SearchIdle
    /\ TopIdle
    /\ DropIdle
    /\ FormatIdle
    /\ EmailCheckIdle
    /\ OrchDone

SpecThrottle == ThrottleSpecInit /\ [][ThrottleNext]_vars

\* ---- the header's scroll listener
HeaderOthers == <<announcerText, faqVars, playerVars, timingVars, contactVars, modalVars, navVars, newsVars, searchVars, topVars, dropVars, formatVars, emailCheckVars, orchVars>>

HeaderNext ==
    \/ \E y \in ScrollOffsets : Scroll(y) /\ UNCHANGED HeaderOthers
    \/ HeaderThrottleReset /\ UNCHANGED HeaderOthers
    \/ HeaderMs /\ UNCHANGED HeaderOthers

HeaderSpecInit ==
    /\ CommonInit
    /\ FaqIdle
    /\ PlayerInit
    /\ TimingInit
    /\ HeaderInit
    /\ ContactIdle
    /\ ModalInit
    /\ NavIdle
    /\ NewsIdle
    /\ SearchIdle
    /\ TopIdle
    /\ DropIdle
    /\ FormatIdle
    /\ EmailCheckIdle
    /\ OrchDone

SpecHeader == HeaderSpecInit /\ [][HeaderNext]_vars

\* ---- the contact form
ContactOthers == <<faqVars, playerVars, timingVars, headerVars, modalVars, navVars, newsVars, searchVars, topVars, dropVars, formatVars, emailCheckVars, orchVars>>

ContactNext ==
    \/ \E f \in ContactFields, v \in FieldValues : ContactInput(f, v) /\ UNCHANGED ContactOthers
    \/ \E f \in ContactFields : ContactBlur(f) /\ UNCHANGED ContactOthers
    \/ \E f \in ContactFields : ContactDebouncedValidate(f) /\ UNCHANGED ContactOthers
    \/ ContactSubmit /\ UNCHANGED ContactOthers
    \/ ContactSettle /\ UNCHANGED ContactOthers
    \/ ContactRestore /\ UNCHANGED ContactOthers
    \/ AnnounceClear /\ UNCHANGED <<ContactOthers, contactVars>>

ContactSpecInit ==
    /\ CommonInit
    /\ FaqIdle
    /\ PlayerInit
    /\ TimingInit
    /\ HeaderInit
    /\ ContactInit
    /\ ModalInit
    /\ NavIdle
    /\ NewsIdle
    /\ SearchIdle
    /\ TopIdle
    /\ DropIdle
    /\ FormatIdle
    /\ EmailCheckIdle
    /\ OrchDone

SpecContact == ContactSpecInit /\ [][ContactNext]_vars

\* ---- the email-capture modal
ModalOthers == <<faqVars, playerVars, timingVars, headerVars, contactVars, navVars, newsVars, searchVars, topVars, dropVars, formatVars, emailCheckVars, orchVars>>

ModalNext ==
    \/ ModalTriggerClick /\ UNCHANGED ModalOthers
    \/ ModalCloseClick /\ UNCHANGED ModalOthers
    \/ ModalEscape /\ UNCHANGED ModalOthers
    \/ ModalFocusTimer /\ UNCHANGED ModalOthers
    \/ ModalExitTimer /\ UNCHANGED ModalOthers
    \/ \E v \in EmailValues : EmailInput(v) /\ UNCHANGED ModalOthers
    \/ EmailSubmit /\ UNCHANGED ModalOthers
    \/ \E resolved \in BOOLEAN : EmailSettle(resolved) /\ UNCHANGED ModalOthers
    \/ EmailSuccessTimer /\ UNCHANGED ModalOthers
    \/ ModalAdvance /\ UNCHANGED ModalOthers
    \/ AnnounceClear /\ UNCHANGED <<ModalOthers, modalVars>>

ModalSpecInit ==
    /\ CommonInit
    /\ FaqIdle
    /\ PlayerInit
    /\ TimingInit
    /\ HeaderInit
    /\ ContactIdle
    /\ ModalInit
    /\ NavIdle
    /\ NewsIdle
    /\ SearchIdle
    /\ TopIdle
    /\ DropIdle
    /\ FormatIdle
    /\ EmailCheckIdle
    /\ OrchDone

SpecModal == ModalSpecInit /\ [][ModalNext]_vars

\* ---- the mobile menu and the email-capture modal on one page
PageOthers == <<faqVars, playerVars, timingVars, headerVars, contactVars, newsVars, searchVars, topVars, dropVars, formatVars, emailCheckVars, orchVars>>

PageNext ==
    \/ NavToggleClick /\ UNCHANGED PageOthers
    \/ PageOutsideClick /\ UNCHANGED PageOthers
    \/ \E inMenu \in BOOLEAN : PageTriggerClick(inMenu) /\ UNCHANGED PageOthers
    \/ PageCloseClick /\ UNCHANGED PageOthers
    \/ PageEscape /\ UNCHANGED PageOthers
    \/ ModalFocusTimer /\ UNCHANGED <<PageOthers, navVars>>
    \/ ModalExitTimer /\ UNCHANGED <<PageOthers, navVars>>
    \/ \E v \in {GoodEmail} : EmailInput(v) /\ UNCHANGED <<PageOthers, navVars>>
    \/ EmailSubmit /\ UNCHANGED <<PageOthers, navVars>>
    \/ \E resolved \in BOOLEAN : EmailSettle(resolved) /\ UNCHANGED <<PageOthers, navVars>>
    \/ EmailSuccessTimer /\ UNCHANGED <<PageOthers, navVars>>
    \/ ModalAdvance /\ UNCHANGED <<PageOthers, navVars>>

PageSpecInit ==
    /\ CommonInit
    /\ FaqIdle
    /\ PlayerInit
    /\ TimingInit
    /\ HeaderInit
    /\ ContactIdle
    /\ ModalInit
    /\ NavInit
    /\ NewsIdle
    /\ SearchIdle
    /\ TopIdle
    /\ DropIdle
    /\ FormatIdle
    /\ EmailCheckIdle
    /\ OrchDone

SpecPage == PageSpecInit /\ [][PageNext]_vars

\* ---- formatTime and parseDuration
FormatOthers == <<announcerText, faqVars, playerVars, timingVars, headerVars, contactVars,
                  modalVars, navVars, newsVars, searchVars, topVars, dropVars, emailCheckVars, orchVars>>

FormatNext ==
    \/ FormatTimeStep /\ UNCHANGED FormatOthers
    \/ ParseDurationStep /\ UNCHANGED FormatOthers

FormatSpecInit ==
    /\ CommonInit
    /\ FaqIdle
    /\ PlayerInit
    /\ TimingInit
    /\ HeaderInit
    /\ ContactIdle
    /\ ModalInit
    /\ NavIdle
    /\ NewsIdle
    /\ SearchIdle
    /\ TopIdle
    /\ DropIdle
    /\ FormatInit
    /\ EmailCheckIdle
    /\ OrchDone

SpecFormat == FormatSpecInit /\ [][FormatNext]_vars

\* ---- isValidEmail
EmailCheckOthers == <<announcerText, faqVars, playerVars, timingVars, headerVars,
                      contactVars, modalVars, navVars, newsVars, searchVars, topVars, dropVars, formatVars, orchVars>>

EmailCheckNext == CheckEmail /\ UNCHANGED EmailCheckOthers

EmailCheckSpecInit ==
    /\ CommonInit
    /\ FaqIdle
    /\ PlayerInit
    /\ TimingInit
    /\ HeaderInit
    /\ ContactIdle
    /\ ModalInit
    /\ NavIdle
    /\ NewsIdle
    /\ SearchIdle
    /\ TopIdle
    /\ DropIdle
    /\ FormatIdle
    /\ EmailCheckInit
    /\ OrchDone

SpecEmailCheck == EmailCheckSpecInit /\ [][EmailCheckNext]_vars

\* ---- the newsletter form
NewsOthers == <<searchVars, topVars, dropVars, faqVars, playerVars, timingVars, headerVars, contactVars, modalOwnVars,
                navVars, formatVars, emailCheckVars, orchVars>>

NewsNext ==
    \/ \E v \in NewsValues : NewsInput(v) /\ UNCHANGED NewsOthers
    \/ NewsSubmit /\ UNCHANGED NewsOthers
    \/ \E resolved \in BOOLEAN : NewsSettle(resolved) /\ UNCHANGED NewsOthers
    \/ NewsSuccessTimer /\ UNCHANGED NewsOthers
    \/ NewsRetryTimer /\ UNCHANGED NewsOthers
    \/ NewsAdvance /\ UNCHANGED NewsOthers

NewsSpecInit ==
    /\ CommonInit
    /\ FaqIdle
    /\ PlayerInit
    /\ TimingInit
    /\ HeaderInit
    /\ ContactIdle
    /\ ModalInit
    /\ NavIdle
    /\ NewsInit
    /\ SearchIdle
    /\ TopIdle
    /\ DropIdle
    /\ FormatIdle
    /\ EmailCheckIdle
    /\ OrchDone

SpecNews == NewsSpecInit /\ [][NewsNext]_vars

\* ---- one dropdown item of the navigation
DropOthers == <<announcerText, faqVars, playerVars, timingVars, headerVars, contactVars,
                modalVars, navVars, newsVars, searchVars, topVars, formatVars, emailCheckVars, orchVars>>

DropNext ==
    \/ DropMouseEnter /\ UNCHANGED DropOthers
    \/ DropMouseLeave /\ UNCHANGED DropOthers
    \/ DropTimer /\ UNCHANGED DropOthers
    \/ \E key \in DropKeys : DropKeydown(key) /\ UNCHANGED DropOthers
    \/ DropAdvance /\ UNCHANGED DropOthers

DropSpecInit ==
    /\ CommonInit
    /\ FaqIdle
    /\ PlayerInit
    /\ TimingInit
    /\ HeaderInit
    /\ ContactIdle
    /\ ModalInit
    /\ NavIdle
    /\ NewsIdle
    /\ SearchIdle
    /\ TopIdle
    /\ DropInit
    /\ FormatIdle
    /\ EmailCheckIdle
    /\ OrchDone

SpecDrop == DropSpecInit /\ [][DropNext]_vars

\* ---- the scroll-to-top button
TopOthers == <<announcerText, faqVars, playerVars, timingVars, contactVars, modalVars,
               navVars, newsVars, searchVars, dropVars, formatVars, emailCheckVars, orchVars>>

TopNext ==
    \/ \E y \in TopOffsets : TopScroll(y) /\ UNCHANGED TopOthers
    \/ TopClick /\ UNCHANGED TopOthers
    \/ TopThrottleReset /\ UNCHANGED TopOthers
    \/ TopAdvance /\ UNCHANGED TopOthers

TopSpecInit ==
    /\ CommonInit
    /\ FaqIdle
    /\ PlayerInit
    /\ TimingInit
    /\ HeaderInit
    /\ ContactIdle
    /\ ModalInit
    /\ NavIdle
    /\ NewsIdle
    /\ SearchIdle
    /\ DropIdle
    /\ TopIdle
    /\ FormatIdle
    /\ EmailCheckIdle
    /\ OrchDone

SpecTop == TopSpecInit /\ [][TopNext]_vars

\* ---- the search form
SearchOthers == <<faqVars, playerVars, timingVars, headerVars, contactVars, modalVars,
                  navVars, newsVars, dropVars, topVars, formatVars, emailCheckVars,
                  orchVars>>

SearchNext ==
    \/ \E v \in SearchValues : SearchInput(v) /\ UNCHANGED SearchOthers
    \/ SearchSubmit /\ UNCHANGED SearchOthers
    \/ SearchDebounced /\ UNCHANGED SearchOthers
    \/ SearchAdvance /\ UNCHANGED SearchOthers

SearchSpecInit ==
    /\ CommonInit
    /\ FaqIdle
    /\ PlayerInit
    /\ TimingInit
    /\ HeaderInit
    /\ ContactIdle
    /\ ModalInit
    /\ NavIdle
    /\ NewsIdle
    /\ DropIdle
    /\ TopIdle
    /\ SearchIdle
    /\ FormatIdle
    /\ EmailCheckIdle
    /\ OrchDone

SpecSearch == SearchSpecInit /\ [][SearchNext]_vars

\* ---- the orchestrator, and the FAQ listeners once FAQ.init() has added them
OrchOthers == <<playerVars, timingVars, headerVars, contactVars, modalVars, navVars, newsVars, searchVars, topVars, dropVars, formatVars, emailCheckVars>>

OrchNext ==
    \/ ScriptStart /\ UNCHANGED <<OrchOthers, faqVars>>
    \/ DOMContentLoaded /\ UNCHANGED <<OrchOthers, faqVars>>
    \/ \E throws \in BOOLEAN : InitComponent(throws) /\ UNCHANGED <<OrchOthers, faqVars>>
    \/ InitFinish /\ UNCHANGED <<OrchOthers, faqVars>>
    \/ \E item \in FaqItems :
          HandlersLive("FAQ") /\ FaqClick(item) /\ UNCHANGED <<OrchOthers, orchVars>>
    \/ AnnounceClear /\ UNCHANGED <<OrchOthers, faqVars, orchVars>>

OrchSpecInit ==
    /\ CommonInit
    /\ FaqInit
    /\ PlayerInit
    /\ TimingInit
    /\ HeaderInit
    /\ ContactIdle
    /\ ModalInit
    /\ NavIdle
    /\ NewsIdle
    /\ SearchIdle
    /\ TopIdle
    /\ DropIdle
    /\ FormatIdle
    /\ EmailCheckIdle
    /\ OrchInit

SpecOrch == OrchSpecInit /\ [][OrchNext]_vars

(***************************************************************************)
(* Properties                                                              *)
(***************************************************************************)

\* C1: from a page with at most one FAQ item expanded, after any sequence
\* of clicks and Enter/Space activations at most one question has
\* aria-expanded = "true".
C1_FaqAtMostOneExpanded == Cardinality(ExpandedItems(faqExpanded)) <= 1

\* C1 happens: a click found one item expanded and expanded another one
C1_Witness ==
    /\ lastEvent.op \in {"faqClick", "faqKeydown"}
    /\ \E a, b \in FaqItems : a # b /\ faqPrev[a] = "true" /\ faqExpanded[b] = "true"

\* C2: at most one player has its isPlaying flag true
C2_SinglePlayerPlaying == Cardinality({p \in Players : isPlaying[p]}) <= 1

\* the i-th burst of the debounced calls ends with call k: the next call,
\* if any, comes no less than Wait after it
IsBurstEnd(k) == k = Len(dCalls) \/ dCalls[k + 1].at - dCalls[k].at >= Wait
BurstEnds == {k \in 1..Len(dCalls) : IsBurstEnd(k)}
BurstRank(k) == Cardinality({j \in BurstEnds : j <= k})

\* C3: debounce: func runs exactly once per burst of calls spaced less than
\* Wait apart, Wait after the last call of the burst and not before, with
\* the arguments of that last call.
C3_DebounceTrailingOnce ==
    /\ \A i \in 1..Len(dFired) :
          \E k \in BurstEnds :
             /\ BurstRank(k) = i
             /\ dFired[i] = Call(dCalls[k].at + Wait, dCalls[k].args)
    /\ \A k \in BurstEnds :
          (k < Len(dCalls) \/ dCalls[k].at + Wait < now) => BurstRank(k) <= Len(dFired)

\* C3 happens: a burst of two calls with different arguments has fired
C3_Witness ==
    \E k \in 2..Len(dCalls) :
       /\ dCalls[k].at - dCalls[k - 1].at < Wait
       /\ dCalls[k].args # dCalls[k - 1].args
       /\ IsBurstEnd(k)
       /\ BurstRank(k) <= Len(dFired)
       /\ dFired[BurstRank(k)].args = dCalls[k].args

\* the calls of a leading-edge throttle that run func: the first call, and
\* each call no less than Limit after the last call that ran it
RECURSIVE LeadingEdge(_, _, _)
LeadingEdge(calls, k, lastAt) ==
    IF k > Len(calls) THEN <<>>
    ELSE IF lastAt = -1 \/ calls[k].at >= lastAt + Limit
         THEN <<calls[k]>> \o LeadingEdge(calls, k + 1, calls[k].at)
         ELSE LeadingEdge(calls, k + 1, lastAt)

\* C4: throttle: of the calls within one Limit window only the first runs
\* func, at once and with its own arguments; the others are dropped and
\* nothing is scheduled for them; the first call after the window runs func
\* at once again.
C4_ThrottleLeadingOnce == tFired = LeadingEdge(tCalls, 1, -1)

\* C4 happens: a call was dropped inside a window and a later call ran func
C4_Witness ==
    /\ Len(tFired) = 2
    /\ Len(tCalls) = 3
    /\ tCalls[2].at < tCalls[1].at + Limit
    /\ tFired[2] = tCalls[3]

\* C7: a click on item B while another item A is expanded leaves exactly B
\* expanded, with every answer's aria-hidden to match; a click on the
\* expanded item leaves no item expanded.
C7_FaqSwitch ==
    lastEvent.op = "faqClick" =>
        LET b == lastEvent.arg IN
        /\ (faqPrev[b] # "true" /\ \E a \in FaqItems \ {b} : faqPrev[a] = "true") =>
              /\ faqExpanded = [i \in FaqItems |-> BoolString(i = b)]
              /\ faqHidden = [i \in FaqItems |-> BoolString(i # b)]
        /\ faqPrev[b] = "true" =>
              /\ ExpandedItems(faqExpanded) = {}
              /\ faqHidden[b] = "true"

\* C7 happens: the click on b found a different item expanded
C7_Witness ==
    /\ lastEvent.op = "faqClick"
    /\ faqPrev[lastEvent.arg] # "true"
    /\ \E a \in FaqItems \ {lastEvent.arg} : faqPrev[a] = "true"

\* C8: a click that starts a player leaves its control on the pause icon
\* and 'Pause episode', and the control of every other player on the play
\* icon and 'Play episode'.
C8_StartResetsOtherControls ==
    (lastEvent.op = "playClick" /\ isPlaying[lastEvent.arg]) =>
        \A q \in Players :
           IF q = lastEvent.arg
              THEN playIcon[q] = "pause" /\ playLabel[q] = "Pause episode"
              ELSE playIcon[q] = "play" /\ playLabel[q] = "Play episode"

\* C8 happens: player 2 was started while player 1 was playing
C8_Witness ==
    /\ lastEvent = Event("playClick", 2)
    /\ isPlaying[2]
    /\ ~wasPlaying[2]
    /\ wasPlaying[1]

\* C9: after a scroll event the header has header--scrolled iff the offset
\* is above 100px, has header--hidden when the page was scrolled down to an
\* offset above 200px, and has not when it was scrolled up.
C9_HeaderFollowsScroll ==
    lastEvent.op = "scroll" =>
        /\ headerScrolled <=> pageYOffset > ScrolledAbove
        /\ (pageYOffset > prevYOffset /\ pageYOffset > HiddenAbove) => headerHidden
        /\ pageYOffset < prevYOffset => ~headerHidden

\* an invalid required field, as validateField judges it
InvalidRequired(f) ==
    \/ Trim(fieldValue[f]) = <<>>
    \/ fieldType[f] = "email" /\ ~IsValidEmail(fieldValue[f])

\* C5: a submit of the email-capture form with an address that is not a
\* valid email (the empty one included) does not invoke submitEmail, leaves
\* aria-hidden, the submit button's disabled state and its label as they
\* were, the button being enabled, and sets the inline error text.
C5_InvalidEmailStep ==
    (lastEvent'.op = "emailSubmit" /\ ~IsValidEmail(emailValue)) =>
        /\ submitEmailCalls' = submitEmailCalls
        /\ mSettleTimer' = mSettleTimer
        /\ modalHidden' = modalHidden
        /\ modalDisplay' = modalDisplay
        /\ mBtnDisabled' = FALSE
        /\ mBtnText' = mBtnText
        /\ mBtnText' = "Subscribe"
        /\ mErrorText' = "Please enter a valid email address"
C5_InvalidEmailRejected == [][C5_InvalidEmailStep]_vars

\* C5 happens: an invalid address was submitted in the open modal
C5_Witness ==
    /\ lastEvent.op = "emailSubmit"
    /\ emailValue = NoDotEmail
    /\ modalHidden = "false"
    /\ mErrorText = "Please enter a valid email address"

\* C6: a submit of the contact form with an empty or blank required field
\* does not invoke submitContactForm, announces the request to correct the
\* errors, leaves the submit button enabled with its label, and still
\* validates every required field.
C6_InvalidContactStep ==
    (lastEvent'.op = "contactSubmit" /\ \E f \in RequiredInputs : Trim(fieldValue[f]) = <<>>) =>
        /\ contactCalls' = contactCalls
        /\ cStage' = cStage
        /\ announcerText' = "Please correct the errors in the form"
        /\ cBtnDisabled' = FALSE
        /\ cBtnText' = cBtnText
        /\ \A f \in RequiredInputs :
              /\ fieldInvalid'[f] = BoolString(InvalidRequired(f))
              /\ fieldErrorClass'[f] = InvalidRequired(f)
C6_InvalidContactRejected == [][C6_InvalidContactStep]_vars

\* C6 happens: after the submit a required field behind an empty required
\* field carries its own verdict
C6_Witness ==
    /\ lastEvent.op = "contactSubmit"
    /\ announcerText = "Please correct the errors in the form"
    /\ \E f, g \in RequiredInputs :
          /\ f < g
          /\ fieldValue[f] = EmptyValue
          /\ fieldValue[g] = BlankValue
          /\ fieldInvalid[f] = "true"
          /\ fieldInvalid[g] = "true"

\* C10 as stated: once the init() of a component has thrown and the error
\* was caught and logged, the init() of every later component was still run.
C10_FailureKeepsRest ==
    initPhase = "failed" =>
        /\ errorLogged
        /\ \A k \in (initThrew + 1)..NumComponents :
              \E n \in 1..Len(initCalled) : initCalled[n] = Components[k]

\* C10 amended: once the init() of component k has thrown, the error is
\* caught and logged, initializeComponents is over, and the init() calls
\* made are those of components 1..k: no later component's init() is run,
\* and the earlier components stay initialized.
C10_FailureAbortsRest ==
    initThrew # 0 =>
        /\ errorLogged
        /\ ~successLogged
        /\ initPhase = "failed"
        /\ initCalled = SubSeq(Components, 1, initThrew)
        /\ initialized = {Components[k] : k \in 1..(initThrew - 1)}

\* C10 happens: FAQ.init() threw after four components were initialized
C10_Witness ==
    /\ initThrew = 5
    /\ initPhase = "failed"
    /\ Len(initCalled) = 5
    /\ "Forms" \in initialized
    /\ "Search" \notin initialized

\* C11, the state part: initializeComponents is entered at most once, and
\* exactly once as soon as the script has run and the document is no longer
\* loading; it is never entered while the document is loading; the init()
\* calls made are a prefix of the fixed order (so each is made at most
\* once); a throw is caught and logged inside initializeComponents, and the
\* components before the failing one are initialized with their handlers.
C11_InitState ==
    /\ initRuns <= 1
    /\ (scriptRan /\ readyState # "loading") => initRuns = 1
    /\ initRuns > 0 => readyState # "loading"
    /\ (initPhase \in {"running", "done", "failed"}) <=> (initRuns = 1)
    /\ Len(initCalled) <= NumComponents
    /\ initCalled = SubSeq(Components, 1, Len(initCalled))
    /\ initThrew # 0 =>
          /\ initPhase = "failed"
          /\ errorLogged
          /\ \A k \in 1..(initThrew - 1) : HandlersLive(Components[k])

\* C11, the step part: a component that was initialized stays initialized,
\* and once initializeComponents has returned no init() is called again.
C11_InitStep ==
    /\ initialized \subseteq initialized'
    /\ initPhase \in {"done", "failed"} => UNCHANGED <<initPhase, initCalled, initRuns>>

\* C11: orchestrated initialization runs exactly once, only after the
\* document left the loading state, in the fixed order with each init()
\* called at most once; a throw never leaves initializeComponents, and the
\* components initialized before it keep their handlers.
C11_OrchestratedInit == [](C11_InitState) /\ [][C11_InitStep]_vars

\* C11 happens: the script ran while the document was loading, the
\* initialization ran at DOMContentLoaded, ScrollEffects.init() threw, and
\* a click on a FAQ question was handled afterwards
C11_Witness ==
    /\ readyState = "interactive"
    /\ initRuns = 1
    /\ initThrew = 7
    /\ initCalled = SubSeq(Components, 1, 7)
    /\ HandlersLive("FAQ")
    /\ lastEvent.op = "faqClick"

\* C12, one step of the modal's lifecycle
C12_LifecycleStep ==
    \* a trigger click: visible at once, the focus call 100ms away
    /\ lastEvent'.op = "modalTrigger" =>
          /\ modalHidden' = "false"
          /\ modalDisplay' = "flex"
          /\ FocusDelay \in mFocusTimers'
    /\ lastEvent'.op = "modalFocusTimer" =>
          /\ 0 \in mFocusTimers
          /\ focusOn' = "modalFirst"
    \* a close click, or Escape on a modal that is not hidden: hidden at
    \* once, display untouched, the display timer 250ms away
    /\ (\/ lastEvent'.op = "modalClose"
        \/ lastEvent'.op = "modalEscape" /\ modalHidden = "false") =>
          /\ modalHidden' = "true"
          /\ modalDisplay' = modalDisplay
          /\ ExitDelay \in mExitTimers'
          /\ mExitTimers' \subseteq mExitTimers \cup {ExitDelay}
          /\ announcerText' = "Dialog closed"
    \* display turns to none only in the callback of a display timer that
    \* has run its 250ms, and time does not pass over a due timer
    /\ (modalDisplay' = "none" /\ modalDisplay # "none") =>
          /\ lastEvent'.op = "modalExitTimer"
          /\ 0 \in mExitTimers
    /\ lastEvent'.op = "modalExitTimer" => modalDisplay' = "none"
    /\ lastEvent'.op = "modalAdvance" =>
          /\ 0 \notin mExitTimers \cup mFocusTimers
          /\ mExitTimers' = {t - TimeStep : t \in mExitTimers}
          /\ mFocusTimers' = {t - TimeStep : t \in mFocusTimers}
    \* Escape on a hidden modal
    /\ (lastEvent'.op = "modalEscape" /\ modalHidden # "false") =>
          UNCHANGED <<modalVars, announcerText>>

\* C12, the states in between: a hidden modal is still displayed only while
\* one of its display timers runs
C12_LifecycleState ==
    /\ \A t \in mExitTimers : t \in 0..ExitDelay
    /\ \A t \in mFocusTimers : t \in 0..FocusDelay
    /\ (modalHidden = "true" /\ mExitTimers = {}) => modalDisplay = "none"

C12_EscapeHiddenWitness ==
    /\ lastEvent.op = "modalEscape"
    /\ modalHidden = "true"
    /\ modalDisplay = "none"
    /\ focusOn = "modalFirst"
    /\ announcerText = ""

\* C13, the states of a submission in flight: the button is disabled and
\* reads 'Subscribing...' until submitEmail settles, and stays disabled,
\* reading 'Subscribed!', until the success timer runs; an enabled button
\* carries the page-load label.
C13_SubmissionState ==
    /\ mSettleTimer >= 0 => (mBtnDisabled /\ mBtnText = "Subscribing...")
    /\ mSuccessTimer >= 0 => (mBtnDisabled /\ mBtnText = "Subscribed!")
    /\ ~mBtnDisabled => mBtnText = "Subscribe"
    /\ mSettleTimer \in -1..SubmitLatency
    /\ mSuccessTimer \in -1..SuccessDelay

\* C13, one step of a submission
C13_SubmissionStep ==
    \* the submit of a valid address
    /\ (lastEvent'.op = "emailSubmit" /\ IsValidEmail(emailValue)) =>
          /\ mBtnDisabled'
          /\ mBtnText' = "Subscribing..."
          /\ mSettleTimer' = SubmitLatency
    \* submitEmail resolved
    /\ (lastEvent'.op = "emailSettle" /\ mBtnText' = "Subscribed!") =>
          /\ mSettleTimer = 0
          /\ mSuccessTimer' = SuccessDelay
          /\ mBtnDisabled'
          /\ UNCHANGED <<modalHidden, mExitTimers>>
    \* 2000ms after that
    /\ lastEvent'.op = "emailSuccessTimer" =>
          /\ mSuccessTimer = 0
          /\ modalHidden' = "true"
          /\ ExitDelay \in mExitTimers'
          /\ emailValue' = EmptyValue
          /\ ~mBtnDisabled'
          /\ mBtnText' = "Subscribe"
    \* submitEmail rejected
    /\ (lastEvent'.op = "emailSettle" /\ mBtnText' # "Subscribed!") =>
          /\ mSettleTimer = 0
          /\ ~mBtnDisabled'
          /\ mBtnText' = "Subscribe"
          /\ mErrorText' = "Something went wrong. Please try again."
          /\ announcerText' = "Subscription failed. Please try again."
          /\ mSuccessTimer' = -1
          /\ UNCHANGED <<modalHidden, modalDisplay, mExitTimers>>
    \* the two timers count real time
    /\ lastEvent'.op = "modalAdvance" =>
          /\ mSettleTimer # 0 /\ mSuccessTimer # 0
          /\ mSettleTimer > 0 => mSettleTimer' = mSettleTimer - TimeStep
          /\ mSuccessTimer > 0 => mSuccessTimer' = mSuccessTimer - TimeStep

\* C13: for a valid address the button is disabled and reads
\* 'Subscribing...' from the submit until submitEmail settles; on success it
\* reads 'Subscribed!' and exactly 2000ms later the modal is closed, the form
\* reset and the button enabled with its original label; on failure the
\* button is enabled with its original label at once, the inline error is
\* shown and announced, and the modal is not closed nor a close scheduled.
C13_SubmissionOutcomes == [](C13_SubmissionState) /\ [][C13_SubmissionStep]_vars

\* C13 happens: a valid address was submitted on the open modal, submitEmail
\* resolved, and the success timer has just closed the modal
C13_Witness ==
    /\ lastEvent.op = "emailSuccessTimer"
    /\ submitEmailCalls = <<GoodEmail>>
    /\ modalHidden = "true"
    /\ modalDisplay = "flex"
    /\ mExitTimers = {ExitDelay}
    /\ mBtnText = "Subscribe"

\* C13 happens too: submitEmail rejected while the modal was open
C13_FailureWitness ==
    /\ lastEvent.op = "emailSettle"
    /\ submitEmailCalls = <<GoodEmail>>
    /\ mErrorText = "Something went wrong. Please try again."
    /\ modalHidden = "false"
    /\ mExitTimers = {}
    /\ ~mBtnDisabled

\* the toggle and the menu as every closing path leaves them
NavClosedAfter ==
    /\ navToggleExpanded' = "false"
    /\ navMenuExpanded' = "false"
    /\ ~navActive'
    /\ bodyOverflow' = ""

\* C14, one step of the mobile menu
C14_MenuStep ==
    \* a toggle click on a closed menu
    /\ (lastEvent'.op = "navToggle" /\ navToggleExpanded # "true") =>
          /\ navToggleExpanded' = "true"
          /\ navMenuExpanded' = "true"
          /\ navActive'
          /\ bodyOverflow' = "hidden"
    \* a toggle click on an open menu
    /\ (lastEvent'.op = "navToggle" /\ navToggleExpanded = "true") => NavClosedAfter
    \* a click outside the toggle and the menu, with or without a listener
    \* of the modal on its target
    /\ (\/ lastEvent'.op \in {"outsideClick", "modalClose"}
        \/ lastEvent' = Event("modalTrigger", 0)) => NavClosedAfter
    \* Escape
    /\ (lastEvent'.op = "escape" /\ navToggleExpanded = "true") =>
          /\ NavClosedAfter
          /\ focusOn' = "navToggle"
    /\ (lastEvent'.op = "escape" /\ navToggleExpanded # "true") =>
          /\ UNCHANGED <<navVars, focusOn>>
          /\ modalHidden # "false" => UNCHANGED <<modalVars, announcerText>>

\* C14: a toggle click opens a closed menu and closes an open one; an
\* outside click, or Escape on an open menu, leaves it closed, and Escape
\* gives the focus to the toggle; Escape on a closed menu changes nothing.
\* Opening sets aria-expanded true on the toggle and the menu, adds the
\* active class and sets body overflow hidden; every closing path sets
\* aria-expanded false on both, removes the class and clears body overflow.
C14_MobileMenu == [][C14_MenuStep]_vars

\* C14 happens: the menu was opened by the toggle and closed by Escape
C14_Witness ==
    /\ lastEvent.op = "escape"
    /\ focusOn = "navToggle"
    /\ navToggleExpanded = "false"
    /\ navMenuExpanded = "false"
    /\ ~navActive
    /\ modalHidden = "true"
    /\ mExitTimers = {}
    /\ modalDisplay = "none"

\* the two decimal digits of a number below 100
TwoDigits(n) == <<DigitChars[(n \div 10) + 1], DigitChars[(n % 10) + 1]>>

\* C15: for every whole number of seconds s >= 0, formatTime(s) is the
\* decimal floor(s/60), a colon, and s mod 60 as two digits (65 -> "1:05",
\* 5 -> "0:05", 0 -> "0:00"), and parseDuration(formatTime(s)) = s.
C15_FormatParseRoundTrip ==
    /\ lastEvent.op \in {"formatTime", "parseDuration"} =>
          /\ fmtText = NumberToString(fmtSeconds \div 60) \o <<":">>
                          \o TwoDigits(fmtSeconds % 60)
          /\ fmtSeconds = 65 => fmtText = <<"1", ":", "0", "5">>
          /\ fmtSeconds = 5 => fmtText = <<"0", ":", "0", "5">>
          /\ fmtSeconds = 0 => fmtText = <<"0", ":", "0", "0">>
    /\ lastEvent.op = "parseDuration" => fmtParsed = <<fmtSeconds>>

\* C15 happens: 3605 seconds were formatted as "60:05" and read back
C15_Witness ==
    /\ lastEvent.op = "parseDuration"
    /\ fmtSeconds = 3605
    /\ fmtText = <<"6", "0", ":", "0", "5">>
    /\ fmtParsed = <<3605>>

\* the address format as C16 words it: no white space, exactly one '@' with
\* a character before it, and after it a '.' that has a character before
\* and a character after it
WellFormedAddress(s) ==
    LET ats == {k \in 1..Len(s) : s[k] = "@"} IN
    /\ \A k \in 1..Len(s) : s[k] # " "
    /\ Cardinality(ats) = 1
    /\ \A i \in ats :
          /\ i > 1
          /\ \E k \in (i + 2)..(Len(s) - 1) : s[k] = "."

\* C16: isValidEmail(s) is true exactly for the strings without white space
\* that have one '@' with a character before it and, after it, a '.' with a
\* character on each side; it accepts "a@b.co" and rejects "a@b",
\* "a b@c.com" and "".
C16_EmailFormat ==
    /\ verdict # "none" => (verdict = "true" <=> WellFormedAddress(candidate))
    /\ IsValidEmail(<<"a", "@", "b", ".", "c", "o">>)
    /\ ~IsValidEmail(<<"a", "@", "b">>)
    /\ ~IsValidEmail(<<"a", " ", "b", "@", "c", ".", "c", "o", "m">>)
    /\ ~IsValidEmail(<<>>)

\* C16 happens: an address with two dots after the '@' was accepted
C16_Witness ==
    /\ candidate = <<"a", "@", ".", "a", ".", "a">>
    /\ verdict = "true"

\* C16 happens too: an address whose only dot comes before the '@' was rejected
C16_RejectWitness ==
    /\ candidate = <<"a", ".", "a", "@", "a", "a">>
    /\ verdict = "false"

\* C17: every player's control shows the pause icon and label exactly when
\* that player's isPlaying flag is true (so a click on a control that shows
\* "play" starts the player).
C17_ControlMatchesState ==
    \A p \in Players :
        (playIcon[p] = "pause" /\ playLabel[p] = "Pause episode") <=> isPlaying[p]

\* C18: whenever the mobile menu is open (aria-expanded true) or the modal
\* is visible (aria-hidden false), body overflow is 'hidden'.
C18_ScrollLocked ==
    (navToggleExpanded = "true" \/ modalHidden = "false") => bodyOverflow = "hidden"

\* C19: a modal that is open (aria-hidden false) is displayed (display
\* flex), also after it was closed and reopened within the 250ms of the
\* display timer.
C19_OpenModalDisplayed ==
    modalHidden = "false" => modalDisplay = "flex"

\* every newsletter submission has settled and every timer has fired
NewsQuiet ==
    /\ nlSettleTimer = -1
    /\ nlSuccessTimer = -1
    /\ nlRetryTimers = {}

\* C20: a failed newsletter submission leaves the button enabled with 'Try
\* Again' and a 3000ms timer that restores the label; and whatever the
\* sequence of submissions, once all have settled and all timers have fired
\* the button is enabled and carries its page-load label.
C20_RetryLabelRestored ==
    /\ (lastEvent.op = "newsSettle" /\ announcerText = "Subscription failed. Please try again.") =>
          /\ ~nlBtnDisabled
          /\ nlBtnText = "Try Again"
          /\ \E t \in nlRetryTimers : t.left = NewsRetryDelay
    /\ NewsQuiet => (~nlBtnDisabled /\ nlBtnText = "Subscribe")

\* C21: whether or not the newsletter form's email field is required,
\* submitEmail is invoked only with a value that isValidEmail accepts.
C21_NewsletterSubmitsValidOnly ==
    \A k \in 1..Len(submitEmailCalls) : IsValidEmail(submitEmailCalls[k])

\* C22, the states: every player's progress is between 0 and its duration
C22_ProgressInRange ==
    \A p \in Players : progress[p] >= 0 /\ progress[p] <= duration[p]

\* C22, one step: progress changes only in the 1000ms tick of its own
\* player, by +1, while that player's isPlaying is true and progress is
\* below the duration, and such a tick does advance it; clicks leave every
\* progress alone and a volume click leaves every isPlaying alone.
C22_ProgressStep ==
    /\ \A p \in Players :
          /\ progress'[p] >= progress[p]
          /\ progress'[p] # progress[p] =>
                /\ lastEvent' = Event("updateProgress", p)
                /\ progress'[p] = progress[p] + 1
                /\ isPlaying[p]
                /\ progress[p] < duration[p]
          /\ (/\ lastEvent' = Event("updateProgress", p)
              /\ isPlaying[p]
              /\ progress[p] < duration[p]) => progress'[p] = progress[p] + 1
    /\ lastEvent'.op \in {"playClick", "volumeClick"} => progress' = progress
    /\ lastEvent'.op = "volumeClick" => isPlaying' = isPlaying

\* C22: progress starts at 0, never decreases, changes only on the tick and
\* only by +1 while the player is playing and below its duration, so it
\* stays within 0..duration; play, pause and volume clicks leave it
\* unchanged and a volume click leaves isPlaying unchanged.
C22_SimulatedProgress ==
    /\ \A p \in Players : progress[p] = 0
    /\ [](C22_ProgressInRange)
    /\ [][C22_ProgressStep]_vars

\* C22 happens: player 1 played to the end of its duration and a further
\* tick left it there; player 2 was paused half-way and its volume muted
C22_Witness ==
    /\ lastEvent = Event("updateProgress", 1)
    /\ isPlaying[1]
    /\ progress[1] = duration[1]
    /\ duration[1] > 1
    /\ ~isPlaying[2]
    /\ volMuted[2]
    /\ progress[3] = 0

\* C23, one step: mouseenter shows the dropdown at once; a timer callback
\* hides a displayed dropdown only when the full grace delay has passed
\* since the last mouseleave; and display is never set to none while the
\* link's aria-expanded is true.
C23_GraceStep ==
    /\ lastEvent'.op = "dropEnter" => ddDisplay' = "block"
    /\ (lastEvent'.op = "dropTimer" /\ ddDisplay = "block" /\ ddDisplay' = "none") =>
          ddSinceLeave = GraceDelay
    /\ (ddDisplay = "block" /\ ddDisplay' = "none") => ddExpanded' # "true"

\* C23: hover-enter shows the dropdown immediately; after a hover-leave it
\* stays displayed for the full 150ms counted from that hover-leave and is
\* hidden then unless re-expanded, for any interleaving of enter, leave and
\* timers; it is never set to display none while aria-expanded is true.
C23_DropdownGrace == [][C23_GraceStep]_vars


\* C24: validateField.  Whenever a field is validated (on blur, by the
\* debounced input listener, or as a required field on submit), the result is
\* invalid with the "required" message when the field is required and its
\* trimmed value is empty, invalid with the email-format message when the
\* field is email-typed with a non-empty malformed value, and valid with an
\* empty message otherwise; aria-invalid and the field-error class hold the
\* negation of the validity and the field's error element holds the message.
C24_Expected(f) ==
    IF fieldRequired[f] /\ Trim(fieldValue[f]) = <<>>
    THEN [isValid |-> FALSE, message |-> "This field is required"]
    ELSE IF fieldType[f] = "email" /\ fieldValue[f] # <<>> /\ ~IsValidEmail(fieldValue[f])
    THEN [isValid |-> FALSE, message |-> "Please enter a valid email address"]
    ELSE [isValid |-> TRUE, message |-> ""]

C24_ValidatedStep ==
    LET validated ==
            IF lastEvent'.op \in {"contactBlur", "contactValidate"} THEN {lastEvent'.arg}
            ELSE IF lastEvent'.op = "contactSubmit" THEN RequiredInputs
            ELSE {}
    IN  \A f \in validated :
            /\ fieldValue'[f] = fieldValue[f]
            /\ fieldInvalid'[f] = BoolString(~C24_Expected(f).isValid)
            /\ fieldErrorClass'[f] = ~C24_Expected(f).isValid
            /\ fieldErrorText'[f] = C24_Expected(f).message

C24_ValidateField == [][C24_ValidatedStep]_vars

\* a blank required text field was validated on blur and shows the "required"
\* message while the email field shows the format message
C24_Witness ==
    /\ lastEvent.op = "contactBlur"
    /\ lastEvent.arg = 2
    /\ fieldRequired[2]
    /\ fieldValue[2] = BlankValue
    /\ fieldErrorText[2] = "This field is required"
    /\ fieldInvalid[2] = "true"
    /\ fieldErrorClass[2]
    /\ fieldErrorText[1] = "Please enter a valid email address"
    /\ fieldInvalid[1] = "true"

\* a valid field was validated: its message is empty and aria-invalid false
C24_ValidWitness ==
    /\ lastEvent.op = "contactValidate"
    /\ fieldValue[lastEvent.arg] # EmptyValue
    /\ fieldErrorText[lastEvent.arg] = ""
    /\ fieldInvalid[lastEvent.arg] = "false"
    /\ ~fieldErrorClass[lastEvent.arg]


\* C25: scroll-to-top visibility.  Once scrolling has stopped and the
\* throttle's timer has expired, the button has class visible iff the page's
\* vertical offset is greater than 300.
C25_VisibleMatchesOffset ==
    (~topInThrottle /\ topTimer = -1) => (topVisible <=> pageYOffset > VisibleAbove)


\* C26: an in-flight submission is not cancelled by closing, or closing and
\* reopening, the modal.  A pending submitEmail keeps running down to its
\* deadline and settles there; on success the button shows 'Subscribed!' and
\* the 2000ms callback is started, keeps running whatever happens to the
\* modal, and when it runs closeModal runs again, the form is reset and the
\* button restored; on failure the button is restored and the error shown.
C26_Running(timer, timerNext, callback) ==
    /\ timer > 0 => timerNext \in {timer, timer - TimeStep}
    /\ timer = 0 => (timerNext = 0 \/ lastEvent'.op = callback)

C26_InFlightStep ==
    /\ C26_Running(mSettleTimer, mSettleTimer', "emailSettle")
    /\ C26_Running(mSuccessTimer, mSuccessTimer', "emailSuccessTimer")
    /\ (lastEvent'.op = "emailSettle" /\ mSettleTimer = 0) =>
          \/ /\ mBtnText' = "Subscribed!"
             /\ mBtnDisabled'
             /\ mSuccessTimer' = SuccessDelay
          \/ /\ mBtnText' = "Subscribe"
             /\ ~mBtnDisabled'
             /\ mErrorText' = "Something went wrong. Please try again."
             /\ mSuccessTimer' = mSuccessTimer
    /\ (lastEvent'.op = "emailSuccessTimer" /\ mSuccessTimer = 0) =>
          /\ modalHidden' = "true"
          /\ ExitDelay \in mExitTimers'
          /\ bodyOverflow' = ""
          /\ announcerText' = "Dialog closed"
          /\ emailValue' = EmptyValue
          /\ mBtnText' = "Subscribe"
          /\ ~mBtnDisabled'
          /\ ~mBtnSuccess'

C26_InFlightNotCancelled == [][C26_InFlightStep]_vars

\* the submission resolved while the modal was closed and its exit timer
\* had already hidden it
C26_Witness ==
    /\ lastEvent.op = "emailSettle"
    /\ mBtnText = "Subscribed!"
    /\ mSuccessTimer = SuccessDelay
    /\ modalHidden = "true"
    /\ modalDisplay = "none"

\* the submission resolved just after the modal was closed and reopened
C26_ReopenedWitness ==
    /\ lastEvent.op = "emailSettle"
    /\ mBtnText = "Subscribed!"
    /\ modalHidden = "false"
    /\ mExitTimers # {}
    /\ mFocusTimers # {}

\* the success callback ran on a modal that was already closed and hidden
C26_ClosedAgainWitness ==
    /\ lastEvent.op = "emailSuccessTimer"
    /\ modalDisplay = "none"
    /\ mExitTimers = {ExitDelay}
    /\ mBtnText = "Subscribe"
    /\ ~mBtnDisabled

\* the submission failed while the modal was closed
C26_FailureWitness ==
    /\ lastEvent.op = "emailSettle"
    /\ mErrorText = "Something went wrong. Please try again."
    /\ ~mBtnDisabled
    /\ modalHidden = "true"


\* C27: live search threshold.  The debounced path runs only 500ms after the
\* last input event, and then calls performSearch iff the field's value at
\* that moment has more than 2 characters, with that value; a submit calls
\* performSearch at once with the current value whatever its length; no
\* other step calls performSearch.
C27_SearchStep ==
    /\ lastEvent'.op = "searchDebounced" =>
          /\ srSinceInput = SearchWait
          /\ srCall'.called <=> Len(srValue') > 2
          /\ srCall'.called => srCall'.query = srValue'
    /\ lastEvent'.op = "searchSubmit" =>
          /\ srCall'.called
          /\ srCall'.query = srValue'
          /\ srValue' = srValue
    /\ srCall'.called =>
          /\ lastEvent'.op \in {"searchDebounced", "searchSubmit"}
          /\ announcerText' = "Searching for \"" \o Text(srCall'.query) \o "\""

C27_LiveSearch == [][C27_SearchStep]_vars

\* after a burst of input events that ended with a three-character value the
\* debounced path searched for it
C27_Witness ==
    /\ lastEvent.op = "searchDebounced"
    /\ srCall.called
    /\ srCall.query = <<"t", "o", "r">>
    /\ announcerText = "Searching for \"tor\""

\* the debounced path ran on a two-character value and did not search
C27_ShortWitness ==
    /\ lastEvent.op = "searchDebounced"
    /\ srValue = <<"t", "o">>
    /\ ~srCall.called

\* a submit searched for a one-character value while the debounce was pending
C27_SubmitWitness ==
    /\ lastEvent.op = "searchSubmit"
    /\ srCall.called
    /\ srCall.query = <<"t">>
    /\ srTimer > 0


\* the toggle and the menu agree: the same aria-expanded on both, and the
\* active class on the toggle iff that aria-expanded is true
C28_Consistent ==
    /\ navToggleExpanded = navMenuExpanded
    /\ navActive <=> navToggleExpanded = "true"

\* C28: mobile menu attribute consistency.  From a closed menu with no
\* active class (aria-expanded the same on the toggle and the menu), toggle
\* clicks, outside clicks and Escape presses keep the toggle's aria-expanded
\* equal to the menu's and the active class on the toggle iff aria-expanded
\* is true; and every toggle click and outside click leaves them so.
C28_ConsistentStep ==
    /\ C28_Consistent => C28_Consistent'
    /\ lastEvent'.op \in {"navToggle", "outsideClick"} => C28_Consistent'

C28_MenuConsistency == [][C28_ConsistentStep]_vars

\* the menu was opened by a toggle click while the modal was closed
C28_Witness ==
    /\ lastEvent.op = "navToggle"
    /\ navToggleExpanded = "true"
    /\ navMenuExpanded = "true"
    /\ navActive
    /\ modalHidden = "true"

\* the menu was closed again by a toggle click
C28_ClosedWitness ==
    /\ lastEvent.op = "navToggle"
    /\ navToggleExpanded = "false"
    /\ navMenuExpanded = "false"
    /\ ~navActive


\* every answer's aria-hidden is the negation of its question's aria-expanded
C29_Mirrors ==
    \A i \in FaqItems :
        \/ faqExpanded[i] = "true" /\ faqHidden[i] = "false"
        \/ faqExpanded[i] = "false" /\ faqHidden[i] = "true"

\* C29: FAQ answer visibility mirrors expansion.  Whatever the attributes at
\* page load, a click on a question (or Enter / Space on it) leaves every
\* item's answer with aria-hidden the negation of its question's
\* aria-expanded, and no later step changes that.
C29_MirrorStep ==
    /\ lastEvent'.op = "faqClick" => C29_Mirrors'
    /\ (lastEvent'.op = "faqKeydown" /\ faqExpanded' # faqExpanded) => C29_Mirrors'
    /\ C29_Mirrors => C29_Mirrors'

C29_FaqHiddenMirrorsExpanded == [][C29_MirrorStep]_vars

\* the first click on a page loaded with a question without aria-expanded
\* and an answer whose aria-hidden did not mirror its question
C29_Witness ==
    /\ lastEvent.op = "faqClick"
    /\ \E i \in FaqItems : faqPrev[i] = "none"
    /\ \E i \in FaqItems : i # lastEvent.arg /\ faqPrev[i] = "true"
    /\ C29_Mirrors

============================================================================
